---- MODULE Spec2Model ----
(***************************************************************************)
(* Model of the concurrent extraction pipeline of model-metadata-collection *)
(* (cmd/model-extractor/main.go): the coordinator                           *)
(* processModelsInParallelWithEntryMap, its worker goroutines, the image    *)
(* fetcher fetchManifestSrcAndLayers, the layer scan scanLayersForModelCard,*)
(* createSkeletonMetadata and addModelLabelTags. The layer scan, the        *)
(* timestamps of the config blob and the label merge are also exercised on  *)
(* their own (ScanSpec, TimestampSpec, TagSpec).                            *)
(***************************************************************************)
EXTENDS Integers, Sequences, FiniteSets, TLC

\* ------------------------------------------------------------------------
\* Bounds of the model
\* ------------------------------------------------------------------------
MaxRefs == 2
MaxFaults == 1

Nil == "nil"

\* ------------------------------------------------------------------------
\* Generic helpers
\* ------------------------------------------------------------------------
Range(s) == {s[i] : i \in DOMAIN s}

SeqsUpTo(S, n) == UNION {[1..k -> S] : k \in 0..n}

Count(s, x) == Cardinality({i \in DOMAIN s : s[i] = x})

\* contains checks if a slice contains a string
contains(slice, item) == \E i \in DOMAIN slice : slice[i] = item

\* ------------------------------------------------------------------------
\* Paths: a path is a sequence of segments; the segment "/" in first
\* position marks an absolute path.
\* ------------------------------------------------------------------------
RECURSIVE CleanSegs(_, _, _)
CleanSegs(segs, acc, rooted) ==
    IF segs = <<>> THEN acc
    ELSE LET s == Head(segs) IN
         IF s = "." THEN CleanSegs(Tail(segs), acc, rooted)
         ELSE IF s = ".." THEN
              IF acc # <<>> /\ acc[Len(acc)] # ".."
              THEN CleanSegs(Tail(segs), SubSeq(acc, 1, Len(acc) - 1), rooted)
              ELSE IF rooted THEN CleanSegs(Tail(segs), acc, rooted)
              ELSE CleanSegs(Tail(segs), Append(acc, ".."), rooted)
         ELSE CleanSegs(Tail(segs), Append(acc, s), rooted)

\* filepath.Clean: drops "." segments, resolves "name/..", keeps leading
\* ".." of a relative path, drops ".." at the root; the empty result is ".".
Clean(p) ==
    IF p # <<>> /\ p[1] = "/"
    THEN <<"/">> \o CleanSegs(Tail(p), <<>>, TRUE)
    ELSE LET c == CleanSegs(p, <<>>, FALSE) IN IF c = <<>> THEN <<".">> ELSE c

IsAbs(p) == p # <<>> /\ p[1] = "/"

\* filepath.Join: concatenates the non-empty elements with a separator and
\* cleans the result, so the leading separator of a later element is dropped
Join(a, b) == IF a = <<>> THEN Clean(b) ELSE Clean(a \o (IF IsAbs(b) THEN Tail(b) ELSE b))

\* filepath.Dir of a cleaned path
Dir(p) == IF Len(p) <= 1 THEN (IF IsAbs(p) THEN <<"/">> ELSE <<".">>)
          ELSE SubSeq(p, 1, Len(p) - 1)

IsPrefix(a, b) == Len(a) <= Len(b) /\ SubSeq(b, 1, Len(a)) = a

\* all ancestors of a directory and the directory itself (os.MkdirAll)
DirChain(d) == {SubSeq(d, 1, k) : k \in 1..Len(d)}

\* last segments whose text ends in ".md"
MdSegments == {"README.md", "card.md", "x.md"}

\* variant: every entry counts as a documentation entry
HasSuffixMd_AnyFile(name) == name # <<>>

\* strings.HasSuffix(header.Name, ".md")
HasSuffixMd(name) == name # <<>> /\ name[Len(name)] \in MdSegments

\* the output directory (*outputDir), relative
outputDir == <<"output">>

\* utils.SanitizeManifestRef: the directory name derived from a reference
SanitizeManifestRef(ref) ==
    CASE ref = "quay.io/a:1" -> "quay.io_a_1"
      [] ref = "quay.io/b:1" -> "quay.io_b_1"
      [] ref = "quay.io/c:1" -> "quay.io_c_1"
      [] ref = "quay.io/d:1" -> "quay.io_d_1"
      [] OTHER -> "unknown"

\* ------------------------------------------------------------------------
\* Config blob and timestamps
\* ------------------------------------------------------------------------
\* An optional epoch value (*int64): <<>> is nil, <<v>> points to v.
NoTime == <<>>
SomeTime(v) == <<v>>

\* A timestamp text: absent (""), unparseable in both formats, or an
\* RFC3339 / RFC3339Nano text of sec seconds and nsec nanoseconds.
NoTS == [kind |-> "empty", sec |-> 0, nsec |-> 0]
BadTS == [kind |-> "garbage", sec |-> 0, nsec |-> 0]
TS(sec, nsec) == [kind |-> "ok", sec |-> sec, nsec |-> nsec]

\* A config blob: no bytes, bytes that are not JSON, or a JSON document
EmptyBlob == [kind |-> "empty", created |-> NoTS, history |-> <<>>]
NotJsonBlob == [kind |-> "notjson", created |-> NoTS, history |-> <<>>]
JsonBlob(created, history) == [kind |-> "json", created |-> created, history |-> history]

\* variant: an unparseable text yields the zero time instead of nil
parseTimestampWithFallback_ZeroOnFailure(timestampStr) ==
    IF timestampStr.kind = "ok" THEN <<[sec |-> timestampStr.sec, nsec |-> timestampStr.nsec]>>
    ELSE IF timestampStr.kind = "garbage" THEN <<[sec |-> 0, nsec |-> 0]>>
    ELSE <<>>

\* parseTimestampWithFallback: nil for the empty or unparseable string
parseTimestampWithFallback(timestampStr) ==
    IF timestampStr.kind = "ok" THEN <<[sec |-> timestampStr.sec, nsec |-> timestampStr.nsec]>>
    ELSE <<>>

\* variant: parsedTime.UnixMilli(), which keeps the milliseconds
EpochMs_UnixMilli(parsedTime) == parsedTime.sec * 1000 + parsedTime.nsec \div 1000000

\* parsedTime.Unix() * 1000
EpochMs(parsedTime) == parsedTime.sec * 1000

\* variant: the first history entry, not the last, gives the update time
extractTimestampsFromConfig_FirstHistory(configBlob) ==
    IF configBlob.kind = "empty" THEN <<NoTime, NoTime>>
    ELSE IF configBlob.kind = "notjson" THEN <<NoTime, NoTime>>
    ELSE LET pc0 == parseTimestampWithFallback(configBlob.created)
             createTime == IF configBlob.created.kind # "empty" /\ pc0 # <<>>
                           THEN SomeTime(EpochMs(pc0[1])) ELSE NoTime
             h == configBlob.history
             first == IF Len(h) > 0 THEN h[1] ELSE NoTS
             pl == parseTimestampWithFallback(first)
             updateTime == IF Len(h) > 0 /\ first.kind # "empty" /\ pl # <<>>
                           THEN SomeTime(EpochMs(pl[1])) ELSE createTime
         IN <<createTime, updateTime>>

\* extractTimestampsFromConfig: <<createTime, updateTime>>
extractTimestampsFromConfig(configBlob) ==
    IF configBlob.kind = "empty" THEN <<NoTime, NoTime>>
    ELSE IF configBlob.kind = "notjson" THEN <<NoTime, NoTime>>
    ELSE LET pc0 == parseTimestampWithFallback(configBlob.created)
             createTime == IF configBlob.created.kind # "empty" /\ pc0 # <<>>
                           THEN SomeTime(EpochMs(pc0[1])) ELSE NoTime
             h == configBlob.history
             last == IF Len(h) > 0 THEN h[Len(h)] ELSE NoTS
             pl == parseTimestampWithFallback(last)
             updateTime == IF Len(h) > 0 /\ last.kind # "empty" /\ pl # <<>>
                           THEN SomeTime(EpochMs(pl[1])) ELSE createTime
         IN <<createTime, updateTime>>

\* ------------------------------------------------------------------------
\* Registry contents (the images the references resolve to)
\* ------------------------------------------------------------------------
DocLayerKey == "io.opendatahub.modelcar.layer.type"
DocLayerValue == "modelcard"
TarGzip == "application/vnd.oci.image.layer.v1.tar+gzip"
TarPlain == "application/vnd.oci.image.layer.v1.tar"

\* strings.Contains(layer.MediaType, "+gzip")
IsGzipMediaType(mt) == mt = TarGzip

Entry(name, content) == [Name |-> name, Content |-> content]

Layer(digest, mt, ann, entries) ==
    [Digest |-> digest, MediaType |-> mt, Annotations |-> ann, entries |-> entries]

\* An annotation map: nil, or a set of <<key, value>> pairs
NilAnn == [isNil |-> TRUE, kv |-> {}]
CardAnn == [isNil |-> FALSE, kv |-> {<<DocLayerKey, DocLayerValue>>}]
OtherAnn == [isNil |-> FALSE, kv |-> {<<DocLayerKey, "weights">>}]
NoKeyAnn == [isNil |-> FALSE, kv |-> {<<"org.opencontainers.image.title", "model">>}]

\* variant: the value of the key is not compared
IsModelCardLayer_KeyOnly(layer) ==
    /\ ~layer.Annotations.isNil
    /\ \E p \in layer.Annotations.kv : p[1] = DocLayerKey

\* layer.Annotations != nil, the key exists and its value is "modelcard"
IsModelCardLayer(layer) ==
    /\ ~layer.Annotations.isNil
    /\ \E p \in layer.Annotations.kv : p[1] = DocLayerKey /\ p[2] = DocLayerValue

Registry(ref) ==
    CASE ref = "quay.io/a:1" ->
           \* one doc layer: README.md at the archive root and another file
           [layers |-> << Layer("sha:w", TarPlain, NilAnn, <<Entry(<<"model.bin">>, "bin")>>),
                          Layer("sha:a", TarGzip, CardAnn,
                                <<Entry(<<"LICENSE">>, "lic"), Entry(<<"README.md">>, "# card a")>>) >>,
            configBlob |-> JsonBlob(TS(10, 0), <<TS(20, 5)>>)]
      [] ref = "quay.io/b:1" ->
           \* no layer carries the doc-layer annotation
           [layers |-> << Layer("sha:w", TarPlain, NilAnn, <<Entry(<<"model.bin">>, "bin")>>),
                          Layer("sha:o", TarGzip, OtherAnn, <<Entry(<<"README.md">>, "# not a card")>>),
                          Layer("sha:n", TarPlain, NoKeyAnn, <<Entry(<<"card.md">>, "# not a card")>>) >>,
            configBlob |-> JsonBlob(TS(30, 0), <<BadTS>>)]
      [] ref = "quay.io/c:1" ->
           \* two doc layers: the first is ambiguous, the second has one card
           [layers |-> << Layer("sha:c1", TarPlain, CardAnn,
                                <<Entry(<<"README.md">>, "# one"), Entry(<<"docs", "card.md">>, "# two")>>),
                          Layer("sha:c2", TarGzip, CardAnn,
                                <<Entry(<<"models", "card.md">>, "# card c")>>) >>,
            configBlob |-> EmptyBlob]
      [] ref = "quay.io/d:1" ->
           \* a doc layer whose only .md entry escapes the destination
           [layers |-> << Layer("sha:d", TarPlain, CardAnn,
                                <<Entry(<<"..", "..", "etc", "x.md">>, "# evil")>>) >>,
            configBlob |-> NotJsonBlob]
      [] OTHER -> [layers |-> <<>>, configBlob |-> EmptyBlob]

AllRefs == {"quay.io/a:1", "quay.io/b:1", "quay.io/c:1", "quay.io/d:1"}

\* registry.ExtractOCIArtifactsFromRegistry: the artifacts of a reference,
\* each possibly carrying its own timestamps
Artifact(uri, c, u) == [uri |-> uri, CreateTimeSinceEpoch |-> c, LastUpdateTimeSinceEpoch |-> u]

ExtractOCIArtifactsFromRegistry(ref) ==
    CASE ref = "quay.io/a:1" -> <<Artifact("oci://quay.io/a:1", NoTime, NoTime)>>
      [] ref = "quay.io/b:1" -> <<Artifact("oci://quay.io/b:1", SomeTime(7000), NoTime)>>
      [] ref = "quay.io/c:1" -> <<Artifact("oci://quay.io/c:1", NoTime, SomeTime(9000))>>
      [] OTHER -> <<>>

\* ------------------------------------------------------------------------
\* Metadata records
\* ------------------------------------------------------------------------
\* types.ModelMetadata{}: the zero value of the per-field presence flags
EmptyModelMetadata == [Name |-> FALSE, License |-> FALSE]

\* metadata.ParseModelCardMetadata: presence flags parsed from the card text
ParseModelCardMetadata(content) ==
    CASE content = "# card a" -> [Name |-> TRUE, License |-> TRUE]
      [] content = "# card c" -> [Name |-> TRUE, License |-> FALSE]
      [] OTHER -> EmptyModelMetadata

ExtractedMetadata(name, tags, language, tasks, artifacts) ==
    [Name |-> name, Tags |-> tags, Language |-> language, Tasks |-> tasks, Artifacts |-> artifacts]

\* metadata.ExtractMetadataValues: the values parsed from the card text
ExtractMetadataValues(content) ==
    CASE content = "# card a" -> ExtractedMetadata("a", <<"validated">>, <<"en">>, <<"text-generation">>, <<>>)
      [] content = "# card c" -> ExtractedMetadata("c", <<>>, <<>>, <<>>, <<>>)
      [] OTHER -> ExtractedMetadata(Nil, <<>>, <<>>, <<>>, <<>>)

\* variant: the config-derived timestamps overwrite the artifact's own
FillArtifactTimestamps_Overwrite(artifacts, times) ==
    [i \in DOMAIN artifacts |->
        [artifacts[i] EXCEPT
            !.CreateTimeSinceEpoch = times[1],
            !.LastUpdateTimeSinceEpoch = times[2]]]

\* the loop that fills absent artifact timestamps from the config blob
FillArtifactTimestamps(artifacts, times) ==
    [i \in DOMAIN artifacts |->
        [artifacts[i] EXCEPT
            !.CreateTimeSinceEpoch = IF @ = NoTime THEN times[1] ELSE @,
            !.LastUpdateTimeSinceEpoch = IF @ = NoTime THEN times[2] ELSE @]]

\* A file's bytes: [kind |-> "text", text] or [kind |-> "yaml", doc]
TextFile(t) == [kind |-> "text", text |-> t, doc |-> ExtractedMetadata(Nil, <<>>, <<>>, <<>>, <<>>)]

\* yaml.Marshal / yaml.Unmarshal of an ExtractedMetadata document
YamlMarshal(m) == [kind |-> "yaml", text |-> "", doc |-> m]
YamlUnmarshal(data) == data.doc

\* ------------------------------------------------------------------------
\* Failures of the environment: a fault is <<kind, layer index, entry index>>
\* ------------------------------------------------------------------------
\* variant: the errors of os.MkdirAll and of the doc file's os.WriteFile are
\* not looked at
Fails_DocWriteErrorUnchecked(faults, kind, li, k) ==
    kind \notin {"mkdir", "writeDoc"} /\ <<kind, li, k>> \in faults

\* variant: the error of getBlob is not looked at
Fails_BlobErrorUnchecked(faults, kind, li, k) == kind # "getBlob" /\ <<kind, li, k>> \in faults

Fails(faults, kind, li, k) == <<kind, li, k>> \in faults

LayerFaultKinds == {"getBlob", "mkdir", "writeDoc", "marshal", "writeMeta"}
SkeletonFaults == {<<"skMkdir", 0, 0>>, <<"skMarshal", 0, 0>>, <<"skWrite", 0, 0>>}

\* the fault points the scan of a list of layers can meet
LayerFaultPoints(layers) ==
    LET docLayers == {i \in DOMAIN layers : IsModelCardLayer(layers[i])}
    IN  {<<kind, i, 0>> : kind \in LayerFaultKinds, i \in docLayers}
        \cup {<<"gzip", i, 0>> : i \in {j \in docLayers : IsGzipMediaType(layers[j].MediaType)}}
        \cup UNION {{<<"tarNext", i, k>> : k \in DOMAIN layers[i].entries} : i \in docLayers}
        \cup UNION {{<<"copy", i, k>> : k \in {e \in DOMAIN layers[i].entries :
                                                  HasSuffixMd(layers[i].entries[e].Name)}} : i \in docLayers}
        \cup SkeletonFaults

\* the fault points the scan of an image can meet
FaultPoints(ref) == LayerFaultPoints(Registry(ref).layers)

\* the sets of at most n faults a scan of the image can meet
RECURSIVE SubsetsUpTo(_, _)
SubsetsUpTo(S, n) ==
    IF n = 0 THEN {{}}
    ELSE LET smaller == SubsetsUpTo(S, n - 1) IN
         smaller \cup {f \cup {p} : f \in smaller, p \in S}

FaultSets(ref, n) == SubsetsUpTo(FaultPoints(ref), n)

\* ------------------------------------------------------------------------
\* fetchManifestSrcAndLayers
\* ------------------------------------------------------------------------
\* a non-nil error value (the coordinator only tests err != nil)
Err == "error"

FetchOutcomes == {"ok", "parse", "source", "manifest", "image", "config"}

\* the deferred closure registered after NewImageSource: it runs after the
\* return statement has assigned the named results src and err
DeferredCloseOnError(src, err, session) ==
    IF err # Nil /\ src # Nil THEN "closed" ELSE session

\* a return statement of fetchManifestSrcAndLayers followed by its defers;
\* session is the state of the image-source session the call opened
fetchReturn(src, layers, configBlob, err, session, deferRegistered) ==
    [src |-> src, layers |-> layers, configBlob |-> configBlob, err |-> err,
     session |-> IF deferRegistered THEN DeferredCloseOnError(src, err, session) ELSE session]

fetchManifestSrcAndLayers(manifestRef, outcome) ==
    IF outcome = "parse"
    THEN fetchReturn(Nil, <<>>, EmptyBlob, Err, "none", FALSE)
    ELSE IF outcome = "source"
    THEN fetchReturn(Nil, <<>>, EmptyBlob, Err, "none", FALSE)
    ELSE IF outcome = "manifest"
    THEN fetchReturn(Nil, <<>>, EmptyBlob, Err, "open", TRUE)
    ELSE IF outcome = "image"
    THEN fetchReturn(Nil, <<>>, EmptyBlob, Err, "open", TRUE)
    ELSE IF outcome = "config"
    THEN fetchReturn(Nil, <<>>, EmptyBlob, Err, "open", TRUE)
    ELSE fetchReturn("src", Registry(manifestRef).layers, Registry(manifestRef).configBlob,
                     Nil, "open", TRUE)

\* ------------------------------------------------------------------------
\* createSkeletonMetadata
\* ------------------------------------------------------------------------
\* st = [fs, dirs, wrote, made, blobs, caches, skeletons]: the files and
\* directories on disk, the paths this worker wrote and created, the layers
\* whose blob it requested, the GetBlob calls it made, and the number of
\* times it entered createSkeletonMetadata
WriteFile(st, path, data) ==
    [st EXCEPT !.fs = (path :> data) @@ @, !.wrote = @ \cup {path}]

MkdirAll(st, dir) ==
    [st EXCEPT !.dirs = @ \cup DirChain(dir), !.made = @ \cup DirChain(dir)]

\* variant: the skeleton is built without asking for the artifacts
SkeletonRecord_NoArtifacts(manifestRef, configBlob) ==
    ExtractedMetadata(Nil, <<>>, <<>>, <<>>, <<>>)

SkeletonRecord(manifestRef, configBlob) ==
    ExtractedMetadata(Nil, <<>>, <<>>, <<>>,
        FillArtifactTimestamps(ExtractOCIArtifactsFromRegistry(manifestRef),
                               extractTimestampsFromConfig(configBlob)))

createSkeletonMetadata(manifestRef, configBlob, faults, st) ==
    LET sanitizedDir == SanitizeManifestRef(manifestRef)
        modelDir == Join(outputDir, <<sanitizedDir, "models">>)
        metadataFilePath == Join(modelDir, <<"metadata.yaml">>)
        entered == [st EXCEPT !.skeletons = @ + 1]
    IN  IF Fails(faults, "skMkdir", 0, 0) THEN entered
        ELSE IF Fails(faults, "skMarshal", 0, 0) THEN MkdirAll(entered, modelDir)
        ELSE IF Fails(faults, "skWrite", 0, 0) THEN MkdirAll(entered, modelDir)
        ELSE WriteFile(MkdirAll(entered, modelDir), metadataFilePath,
                       YamlMarshal(SkeletonRecord(manifestRef, configBlob)))

\* ------------------------------------------------------------------------
\* scanLayersForModelCard
\* ------------------------------------------------------------------------
\* the tar loop: acc = [mdFileCount, singleMdFileName, singleMdContent]
RECURSIVE TarLoop(_, _, _, _, _)
TarLoop(entries, k, li, faults, acc) ==
    IF k > Len(entries) THEN acc                       \* io.EOF
    ELSE IF Fails(faults, "tarNext", li, k) THEN acc   \* error reading tar: break
    ELSE LET header == entries[k] IN
         IF HasSuffixMd(header.Name)
         THEN IF acc.mdFileCount + 1 > 1
              THEN [acc EXCEPT !.mdFileCount = @ + 1]   \* multiple .md files: break
              ELSE IF Fails(faults, "copy", li, k)
                   \* io.Copy failed: continue; the reader keeps its error, so the
                   \* next tr.Next() returns it and the loop breaks
                   THEN [acc EXCEPT !.mdFileCount = @ + 1,
                                    !.singleMdFileName = header.Name]
                   ELSE TarLoop(entries, k + 1, li, faults,
                                [mdFileCount |-> acc.mdFileCount + 1,
                                 singleMdFileName |-> header.Name,
                                 singleMdContent |-> header.Content])
         ELSE TarLoop(entries, k + 1, li, faults, acc)  \* content discarded

\* strings.HasPrefix(safeName, ".." + separator)
HasParentPrefix(safeName) == Len(safeName) >= 2 /\ safeName[1] = ".."

\* variant: only parent traversal is rejected
UnsafeName_ParentOnly(safeName) == HasParentPrefix(safeName)

\* variant: the name of the entry is not checked
UnsafeName_Unchecked(safeName) == FALSE

\* filepath.IsAbs(safeName) || strings.HasPrefix(safeName, ".." + separator)
UnsafeName(safeName) == IsAbs(safeName) \/ HasParentPrefix(safeName)

\* variant: any layer with a documentation entry is used
SingleMdFile_AtLeastOne(mdFileCount) == mdFileCount >= 1

\* if mdFileCount == 1
SingleMdFile(mdFileCount) == mdFileCount = 1

\* the final containment test on the cleaned output path
WithinModelDir(outputFilePath, modelDir) ==
    \/ (IsPrefix(Clean(modelDir), Clean(outputFilePath)) /\ Len(Clean(outputFilePath)) > Len(Clean(modelDir)))
    \/ Clean(outputFilePath) = Clean(modelDir)

\* blobinfocachememory.New(): a cache that knows no blob
BlobInfoCacheNew == {}

\* a call of src.GetBlob: the digest asked for and the cache handed to it
GetBlobCall(digest, cache) == [digest |-> digest, cache |-> cache]

ScanResult(found, metadata, st) == [found |-> found, metadata |-> metadata, st |-> st]

RECURSIVE ScanFrom(_, _, _, _, _, _)
ScanFrom(layers, i, manifestRef, configBlob, faults, st) ==
    IF i > Len(layers)
    THEN ScanResult(FALSE, EmptyModelMetadata,
                    createSkeletonMetadata(manifestRef, configBlob, faults, st))
    ELSE LET layer == layers[i]
             continue(s) == ScanFrom(layers, i + 1, manifestRef, configBlob, faults, s)
         IN
         IF ~IsModelCardLayer(layer) THEN continue(st)
         ELSE LET st1 == [st EXCEPT !.blobs = Append(@, i),
                                    !.caches = Append(@, GetBlobCall(layer.Digest, BlobInfoCacheNew))] IN
         IF Fails(faults, "getBlob", i, 0) THEN continue(st1)
         ELSE IF IsGzipMediaType(layer.MediaType) /\ Fails(faults, "gzip", i, 0) THEN continue(st1)
         ELSE LET tar == TarLoop(layer.entries, 1, i, faults,
                                 [mdFileCount |-> 0, singleMdFileName |-> <<>>, singleMdContent |-> ""])
              IN
              IF ~SingleMdFile(tar.mdFileCount) THEN continue(st1)
              ELSE LET sanitizedDir == SanitizeManifestRef(manifestRef)
                       modelDir == Join(outputDir, <<sanitizedDir>>)
                       safeName == Clean(tar.singleMdFileName)
                       outputFilePath == Join(modelDir, safeName)
                       outputFileDir == Dir(outputFilePath)
                       metadataFilePath == Join(outputFileDir, <<"metadata.yaml">>)
                       extractedMetadata ==
                           [ExtractMetadataValues(tar.singleMdContent) EXCEPT !.Artifacts =
                               FillArtifactTimestamps(ExtractOCIArtifactsFromRegistry(manifestRef),
                                                      extractTimestampsFromConfig(configBlob))]
                   IN
                   IF UnsafeName(safeName) THEN continue(st1)
                   ELSE IF ~WithinModelDir(outputFilePath, modelDir) THEN continue(st1)
                   ELSE IF Fails(faults, "mkdir", i, 0) THEN continue(st1)
                   ELSE LET st2 == MkdirAll(st1, outputFileDir) IN
                   IF Fails(faults, "writeDoc", i, 0) THEN continue(st2)
                   ELSE LET st3 == WriteFile(st2, outputFilePath, TextFile(tar.singleMdContent)) IN
                   IF Fails(faults, "marshal", i, 0) \/ Fails(faults, "writeMeta", i, 0)
                   THEN ScanResult(TRUE, ParseModelCardMetadata(tar.singleMdContent), st3)
                   ELSE ScanResult(TRUE, ParseModelCardMetadata(tar.singleMdContent),
                                   WriteFile(st3, metadataFilePath, YamlMarshal(extractedMetadata)))

\* variant: the layers are examined from the last to the first
scanLayersForModelCard_LastFirst(layers, manifestRef, configBlob, faults, st) ==
    ScanFrom([i \in DOMAIN layers |-> layers[Len(layers) + 1 - i]], 1, manifestRef, configBlob,
             faults, st)

\* for _, layer := range layers
scanLayersForModelCard(layers, manifestRef, configBlob, faults, st) ==
    ScanFrom(layers, 1, manifestRef, configBlob, faults, st)

\* ------------------------------------------------------------------------
\* addModelLabelTags
\* ------------------------------------------------------------------------
TagFaults == {<<"tagRead", 0, 0>>, <<"tagMarshal", 0, 0>>, <<"tagWrite", 0, 0>>}
TagFaultSets(n) == SubsetsUpTo(TagFaults, n)

\* variant: a label is appended without looking for it in the tag list
RECURSIVE AppendLabels_NoLookup(_, _)
AppendLabels_NoLookup(tags, labels) ==
    IF labels = <<>> THEN tags
    ELSE LET label == Head(labels) IN
         IF label # ""
         THEN AppendLabels_NoLookup(Append(tags, label), Tail(labels))
         ELSE AppendLabels_NoLookup(tags, Tail(labels))

\* variant: the empty label is appended like any other
RECURSIVE AppendLabels_KeepsEmpty(_, _)
AppendLabels_KeepsEmpty(tags, labels) ==
    IF labels = <<>> THEN tags
    ELSE LET label == Head(labels) IN
         IF ~contains(tags, label)
         THEN AppendLabels_KeepsEmpty(Append(tags, label), Tail(labels))
         ELSE AppendLabels_KeepsEmpty(tags, Tail(labels))

\* the loop over entry.Labels: appends each non-empty label not yet present
RECURSIVE AppendLabels(_, _)
AppendLabels(tags, labels) ==
    IF labels = <<>> THEN tags
    ELSE LET label == Head(labels) IN
         IF label # "" /\ ~contains(tags, label)
         THEN AppendLabels(Append(tags, label), Tail(labels))
         ELSE AppendLabels(tags, Tail(labels))

addModelLabelTags(manifestRef, entry, faults, st) ==
    LET sanitizedName == SanitizeManifestRef(manifestRef)
        metadataPath == Join(outputDir, <<sanitizedName, "models", "metadata.yaml">>)
    IN  IF metadataPath \notin DOMAIN st.fs \/ Fails(faults, "tagRead", 0, 0) THEN st
        ELSE LET metadata == YamlUnmarshal(st.fs[metadataPath])
                 tags == AppendLabels(metadata.Tags, entry.Labels)
                 changed == tags # metadata.Tags
             IN  IF ~changed THEN st
                 ELSE IF Fails(faults, "tagMarshal", 0, 0) \/ Fails(faults, "tagWrite", 0, 0) THEN st
                 ELSE WriteFile(st, metadataPath, YamlMarshal([metadata EXCEPT !.Tags = tags]))

\* ------------------------------------------------------------------------
\* State
\* ------------------------------------------------------------------------
VARIABLES
    modelEntries,       \* input: the model entries of the index
    maxConcurrentFlag,  \* input: the value of the --max-concurrent flag
    pc,                 \* position of the coordinator
    manifestRefs,       \* the references to process, in input order
    uriToEntry,         \* URI -> entry
    maxConcurrent,      \* the parameter maxConcurrent: corrected on entry, then the
                        \* capacity of the semaphore
    semaphore,          \* permits currently in the semaphore channel
    wg,                 \* WaitGroup counter
    results,            \* buffer of the results channel
    resultsCap,         \* capacity of the results channel
    resultsClosed,      \* the results channel has been closed
    modelResults,       \* the slice the coordinator returns
    next,               \* index of the next reference to launch
    worker,             \* the worker goroutines, by launch index
    fs,                 \* files under the output directory: path -> bytes
    dirs,               \* directories that exist
    faultsLeft,         \* failures the disk and the blob store may still produce in this run
    arg,                \* the arguments of a function that is exercised on its own
    ret,                \* what the calls of that function returned, in call order
    mainPc,             \* position of main around generateManifestsYAML
    manifestsFile       \* what this run wrote to <output>/manifests.yaml, one element per write

vars == <<modelEntries, maxConcurrentFlag, pc, manifestRefs, uriToEntry, maxConcurrent,
          semaphore, wg, results, resultsCap, resultsClosed, modelResults, next, worker, fs, dirs, faultsLeft,
          arg, ret, mainPc, manifestsFile>>

inputVars == <<modelEntries, maxConcurrentFlag, manifestRefs, uriToEntry, maxConcurrent, resultsCap>>
diskVars == <<fs, dirs, faultsLeft>>
callVars == <<arg, ret>>
mainVars == <<mainPc, manifestsFile>>

ModelEntry(uri, labels) == [URI |-> uri, Labels |-> labels]
NoEntry == ModelEntry("", <<>>)

\* no function is exercised on its own
NoArg == [fn |-> "none"]

ModelResult(ref, found, metadata) == [Ref |-> ref, ModelCardFound |-> found, Metadata |-> metadata]

\* a goroutine that has not been started
IdleWorker ==
    [pc |-> "idle", ref |-> "", entry |-> NoEntry, src |-> Nil, session |-> "none",
     closes |-> 0, fetchErr |-> Nil,
     result |-> ModelResult("", FALSE, EmptyModelMetadata),
     wrote |-> {}, made |-> {}, blobs |-> <<>>, caches |-> <<>>, tagged |-> FALSE,
     skeleton |-> FALSE]

\* entries the coordinator is run on
EntryPool ==
    {ModelEntry("quay.io/a:1", <<"validated", "", "featured">>),
     ModelEntry("quay.io/b:1", <<"featured", "featured">>)}

\* entries a single worker is run on
WorkerEntryPool ==
    EntryPool \cup {ModelEntry("quay.io/c:1", <<"validated">>), ModelEntry("quay.io/d:1", <<>>)}

TypeOK ==
    /\ pc \in {"start", "launch", "collect", "done", "panic"}
    /\ semaphore \in Nat /\ wg \in Int /\ next \in Nat
    /\ resultsClosed \in BOOLEAN

Init ==
    /\ modelEntries \in SeqsUpTo(EntryPool, MaxRefs)
    /\ pc = "start"
    /\ manifestRefs = <<>>
    /\ uriToEntry = [u \in {} |-> NoEntry]
    /\ maxConcurrentFlag \in -1..MaxRefs
    /\ maxConcurrent = maxConcurrentFlag
    /\ semaphore = 0
    /\ wg = 0
    /\ results = <<>>
    /\ resultsCap = 0
    /\ resultsClosed = FALSE
    /\ modelResults = <<>>
    /\ next = 1
    /\ worker = <<>>
    /\ fs = [p \in {} |-> TextFile("")]
    /\ dirs = {outputDir}
    \* the disk and the blob store fail only in runs of at most one reference
    /\ faultsLeft = IF Len(modelEntries) <= 1 THEN MaxFaults ELSE 0
    /\ arg = NoArg
    /\ ret = <<>>
    /\ mainPc = "process"
    /\ manifestsFile = <<>>

\* ------------------------------------------------------------------------
\* The coordinator: processModelsInParallelWithMetadata and
\* processModelsInParallelWithEntryMap
\* ------------------------------------------------------------------------
\* manifestRefs = append(manifestRefs, entry.URI) for each entry
RefsOf(entries) == [i \in DOMAIN entries |-> entries[i].URI]

\* variant: an entry does not replace an earlier one with the same URI
EntryMapOf_FirstStays(entries) ==
    [u \in {entries[i].URI : i \in DOMAIN entries} |->
        entries[CHOOSE i \in DOMAIN entries :
                    entries[i].URI = u /\ \A j \in DOMAIN entries : entries[j].URI = u => i <= j]]

\* uriToEntry[entry.URI] = entry for each entry, in order: the last one stays
EntryMapOf(entries) ==
    [u \in {entries[i].URI : i \in DOMAIN entries} |->
        entries[CHOOSE i \in DOMAIN entries :
                    entries[i].URI = u /\ \A j \in DOMAIN entries : entries[j].URI = u => j <= i]]

\* variant: only negative values are corrected
CorrectMaxConcurrent_NegativeOnly(m) == IF m < 0 THEN 1 ELSE m

\* if maxConcurrent < 1 { maxConcurrent = 1 }
CorrectMaxConcurrent(m) == IF m < 1 THEN 1 ELSE m

\* variant: an unbuffered results channel
ResultsCapacity_Unbuffered(refs) == 0

\* variant: a results channel one slot short
ResultsCapacity_OneShort(refs) == IF Len(refs) > 0 THEN Len(refs) - 1 ELSE 0

\* make(chan ModelResult, len(manifestRefs))
ResultsCapacity(refs) == Len(refs)

\* entry of the coordinator up to the creation of the two channels;
\* make(chan, n) panics for a negative n
Start ==
    /\ pc = "start"
    /\ manifestRefs' = RefsOf(modelEntries)
    /\ uriToEntry' = EntryMapOf(modelEntries)
    /\ maxConcurrent' = CorrectMaxConcurrent(maxConcurrent)
    /\ pc' = IF CorrectMaxConcurrent(maxConcurrent) < 0 THEN "panic" ELSE "launch"
    /\ resultsCap' = ResultsCapacity(RefsOf(modelEntries))
    /\ worker' = [i \in DOMAIN modelEntries |-> IdleWorker]
    /\ UNCHANGED <<callVars, mainVars, modelEntries, maxConcurrentFlag, semaphore, wg, results, resultsClosed,
                   modelResults, next, diskVars>>

\* variant: the semaphore has one slot more than maxConcurrent
Launch_SpareSlot ==
    /\ pc = "launch"
    /\ next <= Len(manifestRefs)
    /\ semaphore <= maxConcurrent
    /\ semaphore' = semaphore + 1
    /\ wg' = wg + 1
    /\ worker' = [worker EXCEPT ![next] =
                    [@ EXCEPT !.pc = "fetch", !.ref = manifestRefs[next],
                              !.entry = uriToEntry[manifestRefs[next]]]]
    /\ next' = next + 1
    /\ UNCHANGED <<callVars, mainVars, modelEntries, maxConcurrentFlag, pc, manifestRefs, uriToEntry, maxConcurrent,
                   results, resultsCap, resultsClosed, modelResults, diskVars>>

\* variant: the goroutine is started without acquiring a permit
Launch_NoAcquire ==
    /\ pc = "launch"
    /\ next <= Len(manifestRefs)
    /\ semaphore' = semaphore + 1
    /\ wg' = wg + 1
    /\ worker' = [worker EXCEPT ![next] =
                    [@ EXCEPT !.pc = "fetch", !.ref = manifestRefs[next],
                              !.entry = uriToEntry[manifestRefs[next]]]]
    /\ next' = next + 1
    /\ UNCHANGED <<callVars, mainVars, modelEntries, maxConcurrentFlag, pc, manifestRefs, uriToEntry, maxConcurrent,
                   results, resultsCap, resultsClosed, modelResults, diskVars>>

\* one iteration of the launch loop: acquire a permit (blocks while the
\* semaphore is full), wg.Add(1), start the goroutine
Launch ==
    /\ pc = "launch"
    /\ next <= Len(manifestRefs)
    /\ semaphore < maxConcurrent
    /\ semaphore' = semaphore + 1
    /\ wg' = wg + 1
    /\ worker' = [worker EXCEPT ![next] =
                    [@ EXCEPT !.pc = "fetch", !.ref = manifestRefs[next],
                              !.entry = uriToEntry[manifestRefs[next]]]]
    /\ next' = next + 1
    /\ UNCHANGED <<callVars, mainVars, modelEntries, maxConcurrentFlag, pc, manifestRefs, uriToEntry, maxConcurrent,
                   results, resultsCap, resultsClosed, modelResults, diskVars>>

\* variant: the coordinator does not wait for the workers
WaitReturns_NoWait(counter) == TRUE

\* wg.Wait() returns when the counter is zero
WaitReturns(counter) == counter = 0

\* wg.Wait(); close(results)
WaitAndClose ==
    /\ pc = "launch"
    /\ next > Len(manifestRefs)
    /\ WaitReturns(wg)
    /\ resultsClosed' = TRUE
    /\ pc' = "collect"
    /\ UNCHANGED <<callVars, mainVars, modelEntries, maxConcurrentFlag, manifestRefs, uriToEntry, maxConcurrent,
                   semaphore, wg, results, resultsCap, modelResults, next, worker, diskVars>>

\* one iteration of "for result := range results"
Collect ==
    /\ pc = "collect"
    /\ results # <<>>
    /\ modelResults' = Append(modelResults, Head(results))
    /\ results' = Tail(results)
    /\ UNCHANGED <<callVars, mainVars, modelEntries, maxConcurrentFlag, pc, manifestRefs, uriToEntry, maxConcurrent,
                   semaphore, wg, resultsCap, resultsClosed, next, worker, diskVars>>

\* the range loop ends on the closed, drained channel; return modelResults
Return ==
    /\ pc = "collect"
    /\ results = <<>>
    /\ resultsClosed
    /\ pc' = "done"
    /\ UNCHANGED <<callVars, mainVars, modelEntries, maxConcurrentFlag, manifestRefs, uriToEntry, maxConcurrent,
                   semaphore, wg, results, resultsCap, resultsClosed, modelResults, next,
                   worker, diskVars>>

\* ------------------------------------------------------------------------
\* main after the coordinator: generateManifestsYAML
\* ------------------------------------------------------------------------
ModelManifest(ref, present, metadata) ==
    [Ref |-> ref, ModelCard |-> [Present |-> present, Metadata |-> metadata]]

\* variant: only the models whose card was found get an entry
RECURSIVE ManifestsOf_FoundOnly(_)
ManifestsOf_FoundOnly(rs) ==
    IF rs = <<>> THEN <<>>
    ELSE LET result == Head(rs) IN
         (IF result.ModelCardFound
          THEN <<ModelManifest(result.Ref, result.ModelCardFound, result.Metadata)>>
          ELSE <<>>) \o ManifestsOf_FoundOnly(Tail(rs))

\* the range loop: manifests.Models = append(manifests.Models, manifest)
RECURSIVE ManifestsOf(_)
ManifestsOf(rs) ==
    IF rs = <<>> THEN <<>>
    ELSE LET result == Head(rs) IN
         <<ModelManifest(result.Ref, result.ModelCardFound, result.Metadata)>>
             \o ManifestsOf(Tail(rs))

\* yaml.Marshal of a ManifestsData document
ManifestsYaml(models) == [kind |-> "manifests", Models |-> models]

ManifestFaults == {"marshal", "mkdirAll", "writeFile"}

\* variant: main does not wait for the coordinator to return
ProcessReturned_NotAwaited == pc \notin {"start", "panic"}

\* modelResults := processModelsInParallelWithMetadata(...) has returned
ProcessReturned == pc = "done"

\* err = generateManifestsYAML(modelResults, *outputDir); log.Fatalf on error
GenerateManifestsYAML ==
    /\ ProcessReturned
    /\ mainPc = "process"
    /\ \E fault \in {"none"} \cup (IF faultsLeft > 0 THEN ManifestFaults ELSE {}) :
          IF fault = "none"
          THEN /\ manifestsFile' = Append(manifestsFile, ManifestsYaml(ManifestsOf(modelResults)))
               /\ mainPc' = "generated"
               /\ UNCHANGED faultsLeft
          ELSE /\ mainPc' = "fatal"
               /\ faultsLeft' = faultsLeft - 1
               /\ UNCHANGED manifestsFile
    /\ UNCHANGED <<callVars, inputVars, pc, semaphore, wg, results, resultsClosed, modelResults, next,
                   worker, fs, dirs>>

\* ------------------------------------------------------------------------
\* The worker goroutine of processModelsInParallelWithEntryMap
\* ------------------------------------------------------------------------
Alive == pc # "panic"


\* the disk as seen and changed by worker w
DiskOf(w) == [fs |-> fs, dirs |-> dirs, wrote |-> worker[w].wrote, made |-> worker[w].made,
              blobs |-> worker[w].blobs, caches |-> worker[w].caches, skeletons |-> 0]

\* variant: the error branch returns without sending a result
Fetch_NoSendOnError(w) ==
    /\ Alive
    /\ worker[w].pc = "fetch"
    /\ \E outcome \in FetchOutcomes :
          LET r == fetchManifestSrcAndLayers(worker[w].ref, outcome) IN
          worker' = [worker EXCEPT ![w] =
              [@ EXCEPT !.src = r.src, !.session = r.session, !.fetchErr = r.err,
                        !.pc = IF r.err # Nil THEN "release" ELSE "scan"]]
    /\ UNCHANGED <<callVars, mainVars, inputVars, pc, semaphore, wg, results, resultsClosed, modelResults, next, diskVars>>

\* variant: the error branch does not return and the scan runs
Fetch_NoReturnOnError(w) ==
    /\ Alive
    /\ worker[w].pc = "fetch"
    /\ \E outcome \in FetchOutcomes :
          LET r == fetchManifestSrcAndLayers(worker[w].ref, outcome) IN
          worker' = [worker EXCEPT ![w] =
              [@ EXCEPT !.src = r.src, !.session = r.session, !.fetchErr = r.err,
                        !.pc = "scan"]]
    /\ UNCHANGED <<callVars, mainVars, inputVars, pc, semaphore, wg, results, resultsClosed, modelResults, next, diskVars>>

\* fetchManifestSrcAndLayers and the error branch that prepares the failed
\* result and returns
Fetch(w) ==
    /\ Alive
    /\ worker[w].pc = "fetch"
    /\ \E outcome \in FetchOutcomes :
          LET r == fetchManifestSrcAndLayers(worker[w].ref, outcome) IN
          worker' = [worker EXCEPT ![w] =
              [@ EXCEPT !.src = r.src, !.session = r.session, !.fetchErr = r.err,
                        !.result = IF r.err # Nil
                                   THEN ModelResult(worker[w].ref, FALSE, EmptyModelMetadata)
                                   ELSE @,
                        !.pc = IF r.err # Nil THEN "send" ELSE "scan"]]
    /\ UNCHANGED <<callVars, mainVars, inputVars, pc, semaphore, wg, results, resultsClosed, modelResults, next, diskVars>>

\* what scanLayersForModelCard does on a disk it has not written yet, for
\* every reference and every set of failures: the scan writes and creates
\* but never reads, so its writes are the same on every disk
EmptyDisk == [fs |-> [p \in {} |-> TextFile("")], dirs |-> {}, wrote |-> {}, made |-> {}, blobs |-> <<>>,
              caches |-> <<>>, skeletons |-> 0]

ScanOutcome ==
    [ref \in AllRefs |->
        [faults \in FaultSets(ref, MaxFaults) |->
            scanLayersForModelCard(fetchManifestSrcAndLayers(ref, "ok").layers, ref,
                                   fetchManifestSrcAndLayers(ref, "ok").configBlob,
                                   faults, EmptyDisk)]]

\* scanLayersForModelCard, called from scanLayersForModelCardWithTags with the
\* layers and the config blob the successful fetch returned
Scan(w) ==
    /\ Alive
    /\ worker[w].pc = "scan"
    /\ \E faults \in FaultSets(worker[w].ref, faultsLeft) :
          \E out \in {ScanOutcome[worker[w].ref][faults]} :
          /\ fs' = out.st.fs @@ fs
          /\ faultsLeft' = faultsLeft - Cardinality(faults)
          /\ dirs' = dirs \cup out.st.dirs
          /\ worker' = [worker EXCEPT ![w] =
                [@ EXCEPT !.wrote = @ \cup out.st.wrote, !.made = @ \cup out.st.made,
                          !.blobs = @ \o out.st.blobs,
                          !.caches = @ \o out.st.caches,
                          !.skeleton = out.st.skeletons > 0,
                          !.result = ModelResult(worker[w].ref, out.found, out.metadata),
                          !.pc = "tags"]]
    /\ UNCHANGED <<callVars, mainVars, inputVars, pc, semaphore, wg, results, resultsClosed, modelResults, next>>

\* addModelLabelTags, called from scanLayersForModelCardWithTags
AddTags(w) ==
    /\ Alive
    /\ worker[w].pc = "tags"
    /\ \E faults \in TagFaultSets(faultsLeft) :
          \E st \in {addModelLabelTags(worker[w].ref, worker[w].entry, faults, DiskOf(w))} :
          /\ fs' = st.fs
          /\ faultsLeft' = faultsLeft - Cardinality(faults)
          /\ dirs' = st.dirs
          /\ worker' = [worker EXCEPT ![w] =
                [@ EXCEPT !.wrote = st.wrote, !.tagged = TRUE, !.pc = "send"]]
    /\ UNCHANGED <<callVars, mainVars, inputVars, pc, semaphore, wg, results, resultsClosed, modelResults, next>>

\* variant: the session is never closed by the worker
AfterSend_NoClose(fetchErr) == "release"

\* variant: a worker whose fetch failed ends without giving its permit back
AfterSend_NoReleaseOnError(fetchErr) == IF fetchErr = Nil THEN "close" ELSE "wgdone"

\* the deferred calls that remain after the result was sent, in the order
\* they run: src.Close() (only registered after a successful fetch), the
\* permit release, wg.Done()
AfterSend(fetchErr) == IF fetchErr = Nil THEN "close" ELSE "release"

\* results <- ModelResult{...}: blocks while the buffer is full, panics on a
\* closed channel
Send(w) ==
    /\ Alive
    /\ worker[w].pc = "send"
    /\ resultsClosed \/ Len(results) < resultsCap
    /\ pc' = IF resultsClosed THEN "panic" ELSE pc
    /\ results' = IF resultsClosed THEN results ELSE Append(results, worker[w].result)
    /\ worker' = [worker EXCEPT ![w] = [@ EXCEPT !.pc = AfterSend(worker[w].fetchErr)]]
    /\ UNCHANGED <<callVars, mainVars, inputVars, semaphore, wg, resultsClosed, modelResults, next, diskVars>>

\* variant: the deferred calls are registered in another order, so that the
\* permit is given back first and the session is closed after it
CloseSrc_AfterRelease(w) ==
    /\ Alive
    /\ \/ /\ worker[w].pc = "close"
          /\ semaphore > 0
          /\ semaphore' = semaphore - 1
          /\ worker' = [worker EXCEPT ![w] = [@ EXCEPT !.pc = "closelate"]]
       \/ /\ worker[w].pc = "closelate"
          /\ semaphore' = semaphore
          /\ worker' = [worker EXCEPT ![w] =
                [@ EXCEPT !.session = "closed", !.closes = @ + 1, !.pc = "wgdone"]]
    /\ UNCHANGED <<callVars, mainVars, inputVars, pc, wg, results, resultsClosed, modelResults, next, diskVars>>

\* defer func() { _ = src.Close() }()
CloseSrc(w) ==
    /\ Alive
    /\ worker[w].pc = "close"
    /\ worker' = [worker EXCEPT ![w] =
          [@ EXCEPT !.session = "closed", !.closes = @ + 1, !.pc = "release"]]
    /\ UNCHANGED <<callVars, mainVars, inputVars, pc, semaphore, wg, results, resultsClosed, modelResults, next, diskVars>>

\* defer func() { <-semaphore }(): blocks while the channel is empty
Release(w) ==
    /\ Alive
    /\ worker[w].pc = "release"
    /\ semaphore > 0
    /\ semaphore' = semaphore - 1
    /\ worker' = [worker EXCEPT ![w] = [@ EXCEPT !.pc = "wgdone"]]
    /\ UNCHANGED <<callVars, mainVars, inputVars, pc, wg, results, resultsClosed, modelResults, next, diskVars>>

\* defer wg.Done()
WgDone(w) ==
    /\ Alive
    /\ worker[w].pc = "wgdone"
    /\ wg' = wg - 1
    /\ worker' = [worker EXCEPT ![w] = [@ EXCEPT !.pc = "done"]]
    /\ UNCHANGED <<callVars, mainVars, inputVars, pc, semaphore, results, resultsClosed, modelResults, next, diskVars>>

WorkerStep ==
    \E w \in DOMAIN worker :
        Fetch(w) \/ Scan(w) \/ AddTags(w) \/ Send(w) \/ CloseSrc(w) \/ Release(w) \/ WgDone(w)

Next == Start \/ Launch \/ WaitAndClose \/ Collect \/ Return \/ GenerateManifestsYAML \/ WorkerStep

Spec == Init /\ [][Next]_vars

\* one reference, any image of the registry, and up to MaxFaults failures of
\* the disk and the blob store
InitWorker ==
    /\ modelEntries \in {<<e>> : e \in WorkerEntryPool}
    /\ maxConcurrentFlag \in -1..1
    /\ maxConcurrent = maxConcurrentFlag
    /\ pc = "start"
    /\ manifestRefs = <<>>
    /\ uriToEntry = [u \in {} |-> NoEntry]
    /\ semaphore = 0
    /\ wg = 0
    /\ results = <<>>
    /\ resultsCap = 0
    /\ resultsClosed = FALSE
    /\ modelResults = <<>>
    /\ next = 1
    /\ worker = <<>>
    /\ fs = [p \in {} |-> TextFile("")]
    /\ dirs = {outputDir}
    /\ faultsLeft = MaxFaults
    /\ arg = NoArg
    /\ ret = <<>>
    /\ mainPc = "process"
    /\ manifestsFile = <<>>

WorkerSpec == InitWorker /\ [][Next]_vars

\* goroutines are scheduled fairly and every call of a worker returns
FairSpec == Spec /\ WF_vars(Next)

\* the entries that follow the first one in a run with failures
LaterEntryPool == {ModelEntry("quay.io/b:1", <<"featured", "featured">>)}

\* a list of at least two references whose first image is any image of the
\* registry, with a single permit, on a disk and a blob store that may fail
\* up to MaxFaults times for any of the workers
InitFailing ==
    /\ modelEntries \in {<<e>> \o rest : e \in WorkerEntryPool,
                                         rest \in SeqsUpTo(LaterEntryPool, MaxRefs - 1) \ {<<>>}}
    /\ maxConcurrentFlag = 1
    /\ maxConcurrent = maxConcurrentFlag
    /\ pc = "start"
    /\ manifestRefs = <<>>
    /\ uriToEntry = [u \in {} |-> NoEntry]
    /\ semaphore = 0
    /\ wg = 0
    /\ results = <<>>
    /\ resultsCap = 0
    /\ resultsClosed = FALSE
    /\ modelResults = <<>>
    /\ next = 1
    /\ worker = <<>>
    /\ fs = [p \in {} |-> TextFile("")]
    /\ dirs = {outputDir}
    /\ faultsLeft = MaxFaults
    /\ arg = NoArg
    /\ ret = <<>>
    /\ mainPc = "process"
    /\ manifestsFile = <<>>

FailingSpec == InitFailing /\ [][Next]_vars /\ WF_vars(Next)

\* entries that name the same image with different labels
RepeatedEntryPool ==
    {ModelEntry("quay.io/c:1", <<"featured">>), ModelEntry("quay.io/c:1", <<"community">>)}

\* a list in which one URI occurs once or several times, with one or two
\* permits, on a disk and a blob store that do not fail
InitRepeated ==
    /\ modelEntries \in SeqsUpTo(RepeatedEntryPool, MaxRefs) \ {<<>>}
    /\ maxConcurrentFlag \in {1, 2}
    /\ maxConcurrent = maxConcurrentFlag
    /\ pc = "start"
    /\ manifestRefs = <<>>
    /\ uriToEntry = [u \in {} |-> NoEntry]
    /\ semaphore = 0
    /\ wg = 0
    /\ results = <<>>
    /\ resultsCap = 0
    /\ resultsClosed = FALSE
    /\ modelResults = <<>>
    /\ next = 1
    /\ worker = <<>>
    /\ fs = [p \in {} |-> TextFile("")]
    /\ dirs = {outputDir}
    /\ faultsLeft = 0
    /\ arg = NoArg
    /\ ret = <<>>
    /\ mainPc = "process"
    /\ manifestsFile = <<>>

RepeatedSpec == InitRepeated /\ [][Next]_vars

\* ------------------------------------------------------------------------
\* Functions exercised on their own: the call is made on arguments drawn
\* from a bounded set, outside the coordinator
\* ------------------------------------------------------------------------
MaxHistory == 2

\* the variables of the coordinator and its workers
coordVars == <<inputVars, pc, semaphore, wg, results, resultsClosed, modelResults, next, worker,
               mainVars>>

\* the coordinator has not been entered and no goroutine exists
CoordinatorIdle ==
    /\ modelEntries = <<>>
    /\ maxConcurrentFlag = 1
    /\ maxConcurrent = 1
    /\ pc = "start"
    /\ manifestRefs = <<>>
    /\ uriToEntry = [u \in {} |-> NoEntry]
    /\ semaphore = 0
    /\ wg = 0
    /\ results = <<>>
    /\ resultsCap = 0
    /\ resultsClosed = FALSE
    /\ modelResults = <<>>
    /\ next = 1
    /\ worker = <<>>
    /\ mainPc = "process"
    /\ manifestsFile = <<>>

\* the disk as seen by a call made outside a worker
CallDisk == [fs |-> fs, dirs |-> dirs, wrote |-> {}, made |-> {}, blobs |-> <<>>, caches |-> <<>>, skeletons |-> 0]

Called(fn) == \E i \in DOMAIN ret : ret[i].fn = fn
ReturnOf(fn) == ret[CHOOSE i \in DOMAIN ret : ret[i].fn = fn]

\* the values of the created fields of a config blob: absent, unparseable
\* in both formats, the epoch itself, a time with a fraction of a second
Stamps == {NoTS, BadTS, TS(0, 0), TS(20, 123456789)}

\* the config blobs: no bytes, not JSON, or a document with a created field
\* and a history of at most MaxHistory entries
ConfigBlobs ==
    {EmptyBlob, NotJsonBlob}
        \cup {JsonBlob(c, h) : c \in Stamps, h \in SeqsUpTo(Stamps, MaxHistory)}

\* createTime, updateTime := extractTimestampsFromConfig(configBlob)
CallExtractTimestampsFromConfig ==
    /\ ~Called("extractTimestampsFromConfig")
    /\ ret' = Append(ret, [fn |-> "extractTimestampsFromConfig",
                           times |-> extractTimestampsFromConfig(arg.configBlob)])
    /\ UNCHANGED <<arg, coordVars, diskVars>>

\* modelCardFound, metadata := scanLayersForModelCard(layers, src, manifestRef, configBlob)
CallScanLayersForModelCard ==
    /\ ~Called("scanLayersForModelCard")
    /\ \E faults \in SubsetsUpTo(LayerFaultPoints(arg.layers), faultsLeft) :
          LET out == scanLayersForModelCard(arg.layers, arg.manifestRef, arg.configBlob,
                                            faults, CallDisk)
          IN  /\ fs' = out.st.fs
              /\ dirs' = out.st.dirs
              /\ faultsLeft' = faultsLeft - Cardinality(faults)
              /\ ret' = Append(ret, [fn |-> "scanLayersForModelCard", found |-> out.found,
                                     metadata |-> out.metadata, wrote |-> out.st.wrote,
                                     made |-> out.st.made, blobs |-> out.st.blobs,
                                     skeletons |-> out.st.skeletons, faults |-> faults])
    /\ UNCHANGED <<arg, coordVars>>

\* every image of the registry with every config blob, on a disk and a blob
\* store that do not fail
InitTimestamps ==
    /\ CoordinatorIdle
    /\ arg \in {[manifestRef |-> r, layers |-> Registry(r).layers, configBlob |-> b] :
                    r \in AllRefs, b \in ConfigBlobs}
    /\ ret = <<>>
    /\ fs = [p \in {} |-> TextFile("")]
    /\ dirs = {outputDir}
    /\ faultsLeft = 0

NextTimestamps == CallExtractTimestampsFromConfig \/ CallScanLayersForModelCard

TimestampSpec == InitTimestamps /\ [][NextTimestamps]_vars

MaxEntries == 2

\* names of archive entries: documentation entries at the root and nested,
\* another file, and documentation entries whose name leaves the destination
\* through ".." segments or is absolute
EntryNames ==
    {<<"README.md">>, <<"docs", "card.md">>, <<"LICENSE">>,
     <<"docs", "..", "..", "x.md">>, <<"/", "etc", "x.md">>}

\* the bytes of the entry of each name
ContentOf(name) ==
    CASE name = <<"README.md">> -> "# card a"
      [] name = <<"docs", "card.md">> -> "# card c"
      [] name = <<"LICENSE">> -> "lic"
      [] OTHER -> "# evil"

\* the archives of at most MaxEntries entries
Archives == SeqsUpTo({Entry(n, ContentOf(n)) : n \in EntryNames}, MaxEntries)

\* a second doc layer with one documentation entry
GoodLayer == Layer("sha:g", TarPlain, CardAnn, <<Entry(<<"models", "card.md">>, "# card c")>>)

\* an image whose first doc layer holds any archive, plain or compressed,
\* alone or followed by a second doc layer, on a disk and a blob store that
\* fail at most MaxFaults times
InitScan ==
    /\ CoordinatorIdle
    /\ arg \in {[manifestRef |-> "quay.io/c:1",
                  layers |-> <<Layer("sha:x", mt, CardAnn, es)>> \o more,
                  configBlob |-> Registry("quay.io/c:1").configBlob] :
                    mt \in {TarPlain, TarGzip}, es \in Archives, more \in {<<>>, <<GoodLayer>>}}
    /\ ret = <<>>
    /\ fs = [p \in {} |-> TextFile("")]
    /\ dirs = {outputDir}
    /\ faultsLeft = MaxFaults

NextScan == CallScanLayersForModelCard

ScanSpec == InitScan /\ [][NextScan]_vars

MaxLabels == 2
MaxCalls == 2

\* the labels of an entry and the tags a metadata record may already hold
LabelPool == {"", "validated", "featured"}
TagPool == {"validated", "base"}

\* the metadata record addModelLabelTags reads
TagsPath(manifestRef) ==
    Join(outputDir, <<SanitizeManifestRef(manifestRef), "models", "metadata.yaml">>)

\* the tag list of the record on disk, empty when there is no record
TagsOnDisk(manifestRef) ==
    IF TagsPath(manifestRef) \in DOMAIN fs
    THEN YamlUnmarshal(fs[TagsPath(manifestRef)]).Tags ELSE <<>>

\* addModelLabelTags(manifestRef, entry)
CallAddModelLabelTags ==
    /\ Len(ret) < MaxCalls
    /\ \E faults \in TagFaultSets(faultsLeft) :
          LET st == addModelLabelTags(arg.manifestRef, arg.entry, faults, CallDisk) IN
          /\ fs' = st.fs
          /\ dirs' = st.dirs
          /\ faultsLeft' = faultsLeft - Cardinality(faults)
          /\ ret' = Append(ret, [fn |-> "addModelLabelTags",
                                 present |-> TagsPath(arg.manifestRef) \in DOMAIN fs,
                                 before |-> TagsOnDisk(arg.manifestRef),
                                 after |-> IF TagsPath(arg.manifestRef) \in DOMAIN st.fs
                                           THEN YamlUnmarshal(st.fs[TagsPath(arg.manifestRef)]).Tags
                                           ELSE <<>>,
                                 wrote |-> st.wrote,
                                 faults |-> faults])
    /\ UNCHANGED <<arg, coordVars>>

\* an entry with at most MaxLabels labels, and a disk that holds no metadata
\* record or one with at most MaxLabels tags
InitTags ==
    /\ CoordinatorIdle
    /\ arg \in {[manifestRef |-> "quay.io/b:1", entry |-> ModelEntry("quay.io/b:1", labels)] :
                    labels \in SeqsUpTo(LabelPool, MaxLabels)}
    /\ ret = <<>>
    /\ fs \in {[p \in {} |-> TextFile("")]}
              \cup {(TagsPath("quay.io/b:1") :>
                        YamlMarshal(ExtractedMetadata(Nil, tags, <<>>, <<>>, <<>>))) :
                        tags \in SeqsUpTo(TagPool, MaxLabels)}
    /\ dirs = {outputDir}
    /\ faultsLeft = MaxFaults

NextTags == CallAddModelLabelTags

TagSpec == InitTags /\ [][NextTags]_vars

\* ------------------------------------------------------------------------
\* The catalog: internal/catalog
\* ------------------------------------------------------------------------
MaxModels == 2

\* model names; Nil is the nil pointer
NamePool == {Nil, " ", " A ", "a", "b"}

\* strings.TrimSpace on the names in use
TrimSpace(s) ==
    CASE s = " " -> ""
      [] s = " A " -> "A"
      [] s = " a " -> "a"
      [] OTHER -> s

\* strings.ToLower on the names in use
ToLower(s) ==
    CASE s = "A" -> "a"
      [] s = " A " -> " a "
      [] OTHER -> s

\* variant: the names are compared without lower-casing them
NormalizedName_CaseSensitive(name) == TrimSpace(name)

\* strings.ToLower(strings.TrimSpace(*model.Name))
NormalizedName(name) == ToLower(TrimSpace(name))

\* the order of Go strings (byte-wise) on the names in use
NameRank(s) ==
    CASE s = "" -> 0
      [] s = " " -> 1
      [] s = " A " -> 2
      [] s = " a " -> 3
      [] s = "A" -> 4
      [] s = "a" -> 5
      [] s = "b" -> 6

\* the fields of types.ExtractedMetadata and types.CatalogMetadata that the
\* merge and the order depend on; Description stands for the remaining content
ExtractedModel(name, description) == [Name |-> name, Description |-> description]
CatalogMetadata(name, description) == [Name |-> name, Description |-> description]

\* the fields copied by convertExtractedToCatalogMetadata
convertExtractedToCatalogMetadata(model) == CatalogMetadata(model.Name, model.Description)

\* dynamicNameMap after the loop over dynamicModels
DynamicNameMap(dynamicModels) ==
    {NormalizedName(dynamicModels[i].Name) :
        i \in {j \in DOMAIN dynamicModels : dynamicModels[j].Name # Nil}} \ {""}

\* the loop over staticModels
RECURSIVE AppendStatic(_, _, _)
AppendStatic(result, dynamicNameMap, staticModels) ==
    IF staticModels = <<>> THEN result
    ELSE LET staticModel == Head(staticModels) IN
         IF staticModel.Name = Nil THEN AppendStatic(result, dynamicNameMap, Tail(staticModels))
         ELSE LET normalizedName == NormalizedName(staticModel.Name) IN
              IF normalizedName = "" THEN AppendStatic(result, dynamicNameMap, Tail(staticModels))
              ELSE IF normalizedName \notin dynamicNameMap
              THEN AppendStatic(Append(result, staticModel),
                                dynamicNameMap \cup {normalizedName}, Tail(staticModels))
              ELSE AppendStatic(result, dynamicNameMap, Tail(staticModels))

deduplicateModels(dynamicModels, staticModels) ==
    AppendStatic(dynamicModels, DynamicNameMap(dynamicModels), staticModels)

\* the name a model is ordered by: "" when the pointer is nil
SortKey(model) == IF model.Name = Nil THEN "" ELSE model.Name

\* sort.Slice with less = nameI < nameJ: the order of models that compare
\* equal is not specified, so every ordering by name is a possible outcome
RECURSIVE SortedIndexes(_, _)
SortedIndexes(models, idx) ==
    IF idx = {} THEN {<<>>}
    ELSE LET least == {i \in idx :
                          \A j \in idx : NameRank(SortKey(models[i])) <= NameRank(SortKey(models[j]))}
         IN  UNION {{<<i>> \o rest : rest \in SortedIndexes(models, idx \ {i})} : i \in least}

SortByName(models) ==
    {[k \in DOMAIN models |-> models[order[k]]] : order \in SortedIndexes(models, DOMAIN models)}

\* sort.Slice(allModels, ...)
SortExtracted(allModels) == SortByName(allModels)

\* variant: the merged list is written in the order of the merge
SortCatalog_MergeOrder(catalogModels) == {catalogModels}

\* sort.Slice(catalogModels, ...) after the merge
SortCatalog(catalogModels) == SortByName(catalogModels)

\* an entry met by filepath.Walk: its base name, its status (ok; unreadable:
\* os.ReadFile fails; unparseable: yaml.Unmarshal fails; walkError: the walk
\* could not stat the entry and hands the error to the callback) and its
\* document
WalkEntry(base, status, doc) == [base |-> base, status |-> status, doc |-> doc]

\* variant: a file that cannot be read or parsed contributes an empty record
ReadAndParse_ZeroValueOnError(entry) ==
    IF entry.status = "ok" THEN <<entry.doc>> ELSE <<ExtractedModel(Nil, "")>>

\* os.ReadFile and yaml.Unmarshal of a metadata.yaml: the record, or nothing
\* after the error has been logged
ReadAndParse(entry) == IF entry.status = "ok" THEN <<entry.doc>> ELSE <<>>

\* the callback of filepath.Walk over the entries in walk order: the error
\* the walk returns and allModels
RECURSIVE Walk(_, _)
Walk(entries, allModels) ==
    IF entries = <<>> THEN [err |-> Nil, allModels |-> allModels]
    ELSE LET entry == Head(entries) IN
         IF entry.status = "walkError" THEN [err |-> Err, allModels |-> allModels]
         ELSE IF entry.base = "metadata.yaml"
         THEN Walk(Tail(entries), allModels \o ReadAndParse(entry))
         ELSE Walk(Tail(entries), allModels)

ConvertAll(allModels) == [i \in DOMAIN allModels |-> convertExtractedToCatalogMetadata(allModels[i])]

ModelsCatalog(models) == [Source |-> "Red Hat", Models |-> models]

CatalogFaults == {"marshal", "writeFile"}

\* what CreateModelsCatalogWithStatic can return and write: err, and the
\* catalog written (<<>> when none is)
CreateModelsCatalogWithStatic(entries, staticModels, fault) ==
    LET walked == Walk(entries, <<>>) IN
    IF walked.err # Nil THEN {[err |-> Err, written |-> <<>>]}
    ELSE {IF fault # "none" THEN [err |-> Err, written |-> <<>>]
          ELSE [err |-> Nil, written |-> <<ModelsCatalog(catalogModels)>>] :
             catalogModels \in UNION {SortCatalog(deduplicateModels(ConvertAll(sorted), staticModels)) :
                                         sorted \in SortExtracted(walked.allModels)}}

\* ---- deduplicateModels on its own
DescriptionOf(origin, i) ==
    IF origin = "dynamic" THEN <<"dynamic 1", "dynamic 2", "dynamic 3", "dynamic 4">>[i]
    ELSE <<"static 1", "static 2", "static 3", "static 4">>[i]

\* the lists of at most MaxModels models over the names, each with its own content
ModelLists(origin, names) ==
    {[i \in DOMAIN ns |-> CatalogMetadata(ns[i], DescriptionOf(origin, i))] :
        ns \in SeqsUpTo(names, MaxModels)}

CallDeduplicateModels ==
    /\ ~Called("deduplicateModels")
    /\ ret' = Append(ret, [fn |-> "deduplicateModels",
                           result |-> deduplicateModels(arg.dynamicModels, arg.staticModels)])
    /\ UNCHANGED <<arg, coordVars, diskVars>>

InitDedup ==
    /\ CoordinatorIdle
    /\ arg \in {[dynamicModels |-> d, staticModels |-> s] :
                    d \in ModelLists("dynamic", NamePool), s \in ModelLists("static", NamePool)}
    /\ ret = <<>>
    /\ fs = [p \in {} |-> TextFile("")]
    /\ dirs = {outputDir}
    /\ faultsLeft = 0

NextDedup == CallDeduplicateModels

DedupSpec == InitDedup /\ [][NextDedup]_vars

\* ---- CreateModelsCatalogWithStatic on its own
\* names of the records on disk and of the static models
DiskNames == {Nil, " A ", "a", "b"}
StaticNames == {" ", "a", "b"}

\* what the walk can meet at position i
WalkEntries(i) ==
    {WalkEntry("metadata.yaml", "ok", ExtractedModel(name, DescriptionOf("dynamic", i))) :
        name \in DiskNames}
    \cup {WalkEntry("metadata.yaml", "unreadable", ExtractedModel(Nil, "")),
          WalkEntry("metadata.yaml", "unparseable", ExtractedModel(Nil, "")),
          WalkEntry("README.md", "ok", ExtractedModel(Nil, "")),
          WalkEntry("metadata.yaml", "walkError", ExtractedModel(Nil, ""))}

\* the output trees of at most MaxModels entries, in walk order
Trees ==
    UNION {{t \in [1..k -> UNION {WalkEntries(i) : i \in 1..k}] : \A i \in 1..k : t[i] \in WalkEntries(i)} :
              k \in 0..MaxModels}

CallCreateModelsCatalogWithStatic ==
    /\ ~Called("CreateModelsCatalogWithStatic")
    /\ \E fault \in {"none"} \cup (IF faultsLeft > 0 THEN CatalogFaults ELSE {}) :
          \E out \in CreateModelsCatalogWithStatic(arg.entries, arg.staticModels, fault) :
              /\ ret' = Append(ret, [fn |-> "CreateModelsCatalogWithStatic", err |-> out.err,
                                     written |-> out.written, fault |-> fault])
              /\ faultsLeft' = IF fault = "none" THEN faultsLeft ELSE faultsLeft - 1
    /\ UNCHANGED <<arg, coordVars, fs, dirs>>

InitCatalog ==
    /\ CoordinatorIdle
    /\ arg \in {[entries |-> t, staticModels |-> s] :
                    t \in Trees, s \in ModelLists("static", StaticNames)}
    /\ ret = <<>>
    /\ fs = [p \in {} |-> TextFile("")]
    /\ dirs = {outputDir}
    /\ faultsLeft = MaxFaults

NextCatalog == CallCreateModelsCatalogWithStatic

CatalogSpec == InitCatalog /\ [][NextCatalog]_vars

\* ------------------------------------------------------------------------
\* Static catalogs: validateStaticCatalog and LoadStaticCatalogs
\* ------------------------------------------------------------------------
\* the fields of types.CatalogMetadata and types.CatalogOCIArtifact that the
\* validation reads
CatalogOCIArtifact(uri) == [URI |-> uri]
StaticModel(name, artifacts) == [Name |-> name, Artifacts |-> artifacts]
StaticCatalog(source, models) == [Source |-> source, Models |-> models]

\* a nil error, and the error of validateStaticCatalog: the field that is
\* missing, the index of the model and the index of the artifact
NoError == <<>>
ValidationError(field, i, j) == <<field, i, j>>

\* variant: only the nil pointer counts as a missing name
MissingName_NilOnly(name) == name = Nil

\* model.Name == nil || *model.Name == ""
MissingName(name) == name = Nil \/ name = ""

\* the loop over model.Artifacts: the first artifact without a URI, 0 if none
RECURSIVE FirstMissingURI(_, _)
FirstMissingURI(artifacts, j) ==
    IF j > Len(artifacts) THEN 0
    ELSE IF artifacts[j].URI = "" THEN j
    ELSE FirstMissingURI(artifacts, j + 1)

\* the loop over catalog.Models
RECURSIVE ValidateModelsFrom(_, _)
ValidateModelsFrom(models, i) ==
    IF i > Len(models) THEN NoError
    ELSE LET model == models[i] IN
         IF MissingName(model.Name) THEN ValidationError("name", i, 0)
         ELSE IF Len(model.Artifacts) = 0 THEN ValidationError("artifacts", i, 0)
         ELSE IF FirstMissingURI(model.Artifacts, 1) # 0
         THEN ValidationError("uri", i, FirstMissingURI(model.Artifacts, 1))
         ELSE ValidateModelsFrom(models, i + 1)

validateStaticCatalog(catalog) ==
    IF catalog.Source = "" THEN ValidationError("source", 0, 0)
    ELSE ValidateModelsFrom(catalog.Models, 1)

\* a file named in filePaths: missing (os.Stat reports that it does not
\* exist), unreadable (os.ReadFile fails), unparseable (yaml.Unmarshal
\* fails) or ok with the catalog it parses to
StaticFile(status, catalog) == [status |-> status, catalog |-> catalog]

\* variant: the models before the first invalid one are taken
Contribution_ValidPrefix(file) ==
    IF file.status # "ok" THEN <<>>
    ELSE LET err == validateStaticCatalog(file.catalog) IN
         IF err = NoError THEN file.catalog.Models
         ELSE IF err[2] = 0 THEN <<>>
         ELSE SubSeq(file.catalog.Models, 1, err[2] - 1)

\* one round of the loop over filePaths: what the file appends to
\* allStaticModels
Contribution(file) ==
    IF file.status # "ok" THEN <<>>
    ELSE IF validateStaticCatalog(file.catalog) # NoError THEN <<>>
    ELSE file.catalog.Models

RECURSIVE AllStaticModels(_)
AllStaticModels(files) ==
    IF files = <<>> THEN <<>>
    ELSE Contribution(Head(files)) \o AllStaticModels(Tail(files))

\* return allStaticModels, nil
LoadStaticCatalogs(files) == [models |-> AllStaticModels(files), err |-> NoError]

\* ---- validateStaticCatalog on its own
ArtifactLists ==
    {<<>>, <<CatalogOCIArtifact("oci://a")>>,
     <<CatalogOCIArtifact("oci://a"), CatalogOCIArtifact("")>>,
     <<CatalogOCIArtifact(""), CatalogOCIArtifact("")>>}

StaticModelPool == {StaticModel(name, artifacts) : name \in {Nil, "", "a"}, artifacts \in ArtifactLists}

CallValidateStaticCatalog ==
    /\ ~Called("validateStaticCatalog")
    /\ ret' = Append(ret, [fn |-> "validateStaticCatalog",
                           err |-> validateStaticCatalog(arg.catalog)])
    /\ UNCHANGED <<arg, coordVars, diskVars>>

InitValidate ==
    /\ CoordinatorIdle
    /\ arg \in {[catalog |-> StaticCatalog(source, models)] :
                    source \in {"", "Red Hat"}, models \in SeqsUpTo(StaticModelPool, MaxModels)}
    /\ ret = <<>>
    /\ fs = [p \in {} |-> TextFile("")]
    /\ dirs = {outputDir}
    /\ faultsLeft = 0

NextValidate == CallValidateStaticCatalog

ValidateSpec == InitValidate /\ [][NextValidate]_vars

\* ---- LoadStaticCatalogs on its own
GoodArtifacts == <<CatalogOCIArtifact("oci://a")>>

\* catalogs a static file can hold: valid with none, one and two models,
\* without a source, and with a valid model followed by one without artifacts
FileCatalogs ==
    {StaticCatalog("Red Hat", <<>>),
     StaticCatalog("Red Hat", <<StaticModel("a", GoodArtifacts)>>),
     StaticCatalog("Red Hat", <<StaticModel("b", GoodArtifacts), StaticModel("c", GoodArtifacts)>>),
     StaticCatalog("", <<StaticModel("d", GoodArtifacts)>>),
     StaticCatalog("Red Hat", <<StaticModel("e", GoodArtifacts), StaticModel("f", <<>>)>>)}

StaticFiles ==
    {StaticFile(status, StaticCatalog("", <<>>)) : status \in {"missing", "unreadable", "unparseable"}}
    \cup {StaticFile("ok", catalog) : catalog \in FileCatalogs}

CallLoadStaticCatalogs ==
    /\ ~Called("LoadStaticCatalogs")
    /\ LET out == LoadStaticCatalogs(arg.files) IN
       ret' = Append(ret, [fn |-> "LoadStaticCatalogs", models |-> out.models, err |-> out.err])
    /\ UNCHANGED <<arg, coordVars, diskVars>>

InitLoad ==
    /\ CoordinatorIdle
    /\ arg \in {[files |-> files] : files \in SeqsUpTo(StaticFiles, MaxModels)}
    /\ ret = <<>>
    /\ fs = [p \in {} |-> TextFile("")]
    /\ dirs = {outputDir}
    /\ faultsLeft = 0

NextLoad == CallLoadStaticCatalogs

LoadSpec == InitLoad /\ [][NextLoad]_vars

\* ========================================================================
\* Properties
\* ========================================================================
Workers == DOMAIN worker

\* workers that hold a permit: launched, permit not yet released
HoldsPermit(w) == worker[w].pc \in {"fetch", "scan", "tags", "send", "close", "release"}
InFlight == Cardinality({w \in Workers : HoldsPermit(w)})

\* the worker's fetch has returned
Fetched(w) == worker[w].pc \notin {"idle", "fetch"}
FetchFailed(w) == Fetched(w) /\ worker[w].fetchErr # Nil
FetchSucceeded(w) == Fetched(w) /\ worker[w].fetchErr = Nil

ResultRefs == [i \in DOMAIN modelResults |-> modelResults[i].Ref]

\* C1: when the coordinator returns, it returns exactly one result per input
\* reference: as many results as references, and every reference occurs as a
\* result Ref exactly as often as it occurs in the input, whatever fetches
\* failed.
C1_OneResultPerReference ==
    pc = "done" =>
        /\ Len(modelResults) = Len(manifestRefs)
        /\ \A r \in Range(manifestRefs) \cup Range(ResultRefs) :
              Count(ResultRefs, r) = Count(manifestRefs, r)

C1_Witness ==
    /\ pc = "done"
    /\ Len(manifestRefs) = 2
    /\ manifestRefs[1] = manifestRefs[2]
    /\ FetchFailed(1) /\ FetchSucceeded(2)

\* C2: once maxConcurrent has been corrected, the number of workers that were
\* launched and have not yet released their permit (the release is the
\* worker's completion of its work) never exceeds maxConcurrent, and equals
\* the number of permits in the semaphore, on both exit paths of a worker.
C2_AtMostMaxConcurrentInFlight ==
    pc # "start" =>
        /\ maxConcurrent >= 1
        /\ InFlight <= maxConcurrent
        /\ InFlight = semaphore

C2_Witness ==
    /\ pc = "launch"
    /\ maxConcurrent = 1
    /\ Len(manifestRefs) = 2
    /\ next = 2
    /\ worker[1].pc = "release"
    /\ FetchFailed(1)

\* C3: the coordinator reads a result only after every reference had its
\* worker launched; the result channel is closed, and the coordinator
\* returns, only when all workers have completed; no worker sends on the
\* closed channel (which would panic).
C3_FanOutThenFanIn ==
    /\ (pc \in {"collect", "done"} \/ modelResults # <<>>) => next > Len(manifestRefs)
    /\ (resultsClosed \/ pc \in {"collect", "done"}) => \A w \in Workers : worker[w].pc = "done"
    /\ pc # "panic"

C3_Witness ==
    /\ pc = "collect"
    /\ resultsClosed
    /\ Len(results) = 2
    /\ modelResults = <<>>

\* C4: under fair scheduling, with every call of a worker returning, the
\* coordinator eventually returns, for every number of references and every
\* maxConcurrent.
C4_EventuallyReturns == <>(pc = "done")

C4_Witness ==
    /\ pc = "done"
    /\ Len(manifestRefs) = 2
    /\ maxConcurrentFlag = 1
    /\ Len(modelResults) = 2

\* C5: the result channel has capacity N and never holds more than N
\* results; a worker that is about to send finds a free slot, although the
\* coordinator reads nothing before all workers have completed.
C5_SendNeverBlocks ==
    pc # "start" =>
        /\ resultsCap = Len(manifestRefs)
        /\ Len(results) <= resultsCap
        /\ \A w \in Workers : worker[w].pc = "send" => Len(results) < resultsCap
        /\ (\E w \in Workers : worker[w].pc # "done") => modelResults = <<>>

C5_Witness ==
    /\ pc = "launch"
    /\ Len(manifestRefs) = 2
    /\ Len(results) = 1
    /\ \E w \in Workers : worker[w].pc = "send"

\* C6: with a --max-concurrent value of zero or less the coordinator runs
\* with a permit pool of capacity 1: it does not panic, at most one worker is
\* in flight, and it is never stuck before it has returned.
C6_NonPositiveBehavesAsOne ==
    (maxConcurrentFlag <= 0 /\ pc # "start") =>
        /\ pc # "panic"
        /\ maxConcurrent = 1
        /\ InFlight <= 1
        /\ (pc = "done" \/ ENABLED Next)

C6_Witness ==
    /\ maxConcurrentFlag = 0
    /\ pc = "launch"
    /\ Len(manifestRefs) = 2
    /\ next = 2
    /\ InFlight = 1

\* C7: a worker whose fetch failed has the result {Ref, false, empty
\* metadata}, has written no file and created no directory, and has attempted
\* neither the skeleton nor the label merge; run alone, it leaves the output
\* directory empty.
C7_FetchFailureWritesNothing ==
    \A w \in Workers : FetchFailed(w) =>
        /\ worker[w].result = ModelResult(worker[w].ref, FALSE, EmptyModelMetadata)
        /\ worker[w].wrote = {}
        /\ worker[w].made = {}
        /\ worker[w].blobs = <<>>
        /\ ~worker[w].tagged
        /\ worker[w].pc \notin {"scan", "tags"}
        /\ Len(manifestRefs) = 1 => (DOMAIN fs = {} /\ dirs = {outputDir})

C7_Witness ==
    /\ pc = "done"
    /\ Len(manifestRefs) = 1
    /\ FetchFailed(1)
    /\ modelResults = <<ModelResult(manifestRefs[1], FALSE, EmptyModelMetadata)>>

\* C8: whenever the fetch returned an error after the image-source session
\* had been opened, that session is closed.
C8_SessionClosedOnFetchError ==
    \A w \in Workers : FetchFailed(w) => worker[w].session # "open"

\* C9: a worker whose fetch succeeded holds the session open until it has
\* sent its result, and has closed it exactly once when it releases its
\* permit and completes, whatever the layer scan met.
C9_SessionClosedExactlyOnce ==
    \A w \in Workers : FetchSucceeded(w) =>
        /\ worker[w].pc \in {"scan", "tags", "send", "close"} =>
              (worker[w].session = "open" /\ worker[w].closes = 0)
        /\ worker[w].pc \in {"release", "wgdone", "done"} =>
              (worker[w].session = "closed" /\ worker[w].closes = 1)

C9_Witness ==
    /\ Workers = {1}
    /\ worker[1].pc = "done"
    /\ FetchSucceeded(1)
    /\ faultsLeft < MaxFaults
    /\ worker[1].closes = 1

\* the image of the reference has no layer with the doc-layer annotation
NoDocLayer(ref) ==
    \A i \in DOMAIN Registry(ref).layers : ~IsModelCardLayer(Registry(ref).layers[i])

SkeletonPath(ref) == Join(outputDir, <<SanitizeManifestRef(ref), "models", "metadata.yaml">>)

\* the record createSkeletonMetadata is to persist: empty tag, language and
\* task lists and the artifacts of the collaborator
IsSkeletonFile(ref) ==
    /\ SkeletonPath(ref) \in DOMAIN fs
    /\ LET m == YamlUnmarshal(fs[SkeletonPath(ref)]) IN
          /\ m.Tags = <<>> /\ m.Language = <<>> /\ m.Tasks = <<>>
          /\ m.Artifacts = FillArtifactTimestamps(ExtractOCIArtifactsFromRegistry(ref),
                             extractTimestampsFromConfig(Registry(ref).configBlob))

\* the scan of worker w has just returned (the label merge has not run yet)
ScanReturned(w) == worker[w].pc = "tags"

ScanRet == ReturnOf("scanLayersForModelCard")

\* <output>/<sanitized-ref>
ModelDirOf(ref) == <<"output", SanitizeManifestRef(ref)>>

\* the name ends in .md
IsMdName(name) == name # <<>> /\ name[Len(name)] \in {"README.md", "card.md", "x.md"}

\* the documentation entries of a layer's archive
MdIndexes(layer) == {k \in DOMAIN layer.entries : IsMdName(layer.entries[k].Name)}

\* a relative name that, normalised, does not begin with a ".." segment
SafeRelative(name) == ~IsAbs(name) /\ Clean(name)[1] # ".."

\* the disk before the call
FreshDisk == [fs |-> [p \in {} |-> TextFile("")], dirs |-> {outputDir}, wrote |-> {}, made |-> {},
              blobs |-> <<>>, caches |-> <<>>, skeletons |-> 0]

\* C11: when the archive of the annotated layer holds exactly one entry
\* whose name ends in .md, with a safe relative name, and any other entries,
\* and nothing fails, the scan reports found = true with the flags parsed
\* from the entry, the file <output>/<sanitized-ref>/<entry name> holds
\* exactly the entry's bytes, and a metadata.yaml record with the values
\* extracted from those bytes is written.
C11_SingleMdEntryExtracted ==
    LET layer == arg.layers[1] IN
        (/\ Called("scanLayersForModelCard")
         /\ ScanRet.faults = {}
         /\ Cardinality(MdIndexes(layer)) = 1
         /\ \A k \in MdIndexes(layer) : SafeRelative(layer.entries[k].Name)) =>
            \A k \in MdIndexes(layer) :
                LET e == layer.entries[k]
                    docPath == ModelDirOf(arg.manifestRef) \o e.Name
                    metaPath == Dir(docPath) \o <<"metadata.yaml">>
                IN  /\ ScanRet.found
                    /\ ScanRet.metadata = ParseModelCardMetadata(e.Content)
                    /\ docPath \in DOMAIN fs
                    /\ fs[docPath] = TextFile(e.Content)
                    /\ metaPath \in DOMAIN fs
                    /\ fs[metaPath].kind = "yaml"
                    /\ fs[metaPath].doc.Name = ExtractMetadataValues(e.Content).Name
                    /\ fs[metaPath].doc.Tags = ExtractMetadataValues(e.Content).Tags
                    /\ ScanRet.wrote = {docPath, metaPath}

C11_Witness ==
    /\ Called("scanLayersForModelCard")
    /\ ScanRet.faults = {}
    /\ Len(arg.layers) = 1
    /\ arg.layers[1].entries = <<Entry(<<"LICENSE">>, "lic"), Entry(<<"docs", "card.md">>, "# card c")>>
    /\ ScanRet.found
    /\ fs[ModelDirOf(arg.manifestRef) \o <<"docs", "card.md">>] = TextFile("# card c")

\* the layers with the documentation entries of the first layer removed
ZeroMd(layers) ==
    [layers EXCEPT ![1].entries = SelectSeq(@, LAMBDA e : ~IsMdName(e.Name))]

\* C12: when nothing fails, an annotated layer whose archive holds two or
\* more .md entries leaves the same outcome as the same layer without any
\* .md entry: the same found flag and flags, the same files with the same
\* bytes, the same directories; and when it is the only doc layer, found is
\* false and the skeleton metadata.yaml is the only file.
C12_AmbiguousSameAsNone ==
    (/\ Called("scanLayersForModelCard")
     /\ ScanRet.faults = {}
     /\ Cardinality(MdIndexes(arg.layers[1])) >= 2) =>
            LET zero == scanLayersForModelCard(ZeroMd(arg.layers), arg.manifestRef,
                                               arg.configBlob, {}, FreshDisk)
            IN  /\ ScanRet.found = zero.found
                /\ ScanRet.metadata = zero.metadata
                /\ fs = zero.st.fs
                /\ dirs = zero.st.dirs
                /\ ScanRet.wrote = zero.st.wrote
                /\ (Len(arg.layers) = 1) =>
                      /\ ~ScanRet.found
                      /\ DOMAIN fs = {SkeletonPath(arg.manifestRef)}
                      /\ fs[SkeletonPath(arg.manifestRef)].doc.Tags = <<>>

C12_Witness ==
    /\ Called("scanLayersForModelCard")
    /\ ScanRet.faults = {}
    /\ Len(arg.layers) = 1
    /\ arg.layers[1].entries = <<Entry(<<"README.md">>, "# card a"), Entry(<<"docs", "card.md">>, "# card c")>>
    /\ ~ScanRet.found
    /\ DOMAIN fs = {SkeletonPath(arg.manifestRef)}

\* the scan met a decompression or archive read failure in the first layer
ReadFailed ==
    \E f \in ScanRet.faults : f[1] \in {"gzip", "tarNext", "copy"} /\ f[2] = 1

\* C13: a gzip header failure, an error from reading the next tar header or
\* an error while copying an entry's content, met while scanning the only
\* annotated layer, makes the scan report found = false and write nothing
\* but the skeleton.
C13_CorruptPayloadNeverFound ==
    (Called("scanLayersForModelCard") /\ ReadFailed /\ Len(arg.layers) = 1) =>
            /\ ~ScanRet.found
            /\ ScanRet.wrote \subseteq {SkeletonPath(arg.manifestRef)}

\* C14: every path the scan writes lies under <output>/<sanitized-ref>, every
\* directory it creates is that directory, one below it or one above it, and
\* every documentation file on disk stands at the normalised name of an entry
\* with a safe relative name: an entry whose name is absolute or leaves the
\* directory through ".." is never written, whatever fails.
C14_WritesStayInModelDir ==
    Called("scanLayersForModelCard") =>
        LET modelDir == ModelDirOf(arg.manifestRef) IN
        /\ \A p \in ScanRet.wrote : IsPrefix(modelDir, p) /\ Len(p) > Len(modelDir)
        /\ \A d \in ScanRet.made : IsPrefix(modelDir, d) \/ IsPrefix(d, modelDir)
        /\ DOMAIN fs = ScanRet.wrote
        /\ \A p \in DOMAIN fs : fs[p].kind = "text" =>
              \E i \in DOMAIN arg.layers : \E k \in MdIndexes(arg.layers[i]) :
                  /\ SafeRelative(arg.layers[i].entries[k].Name)
                  /\ p = modelDir \o Clean(arg.layers[i].entries[k].Name)

C14_Witness ==
    /\ Called("scanLayersForModelCard")
    /\ ScanRet.faults = {}
    /\ Len(arg.layers) = 1
    /\ arg.layers[1].entries = <<Entry(<<"docs", "..", "..", "x.md">>, "# evil")>>
    /\ ScanRet.blobs = <<1>>
    /\ ~ScanRet.found
    /\ ScanRet.wrote = {SkeletonPath(arg.manifestRef)}

\* ------------------------------------------------------------------------
\* The timestamps of the config blob (TimestampSpec)
\* ------------------------------------------------------------------------
\* what the call of extractTimestampsFromConfig returned
TimesRet == ReturnOf("extractTimestampsFromConfig").times

\* the created value parses in one of the two formats
Parses(ts) == ts.kind = "ok"

\* the epoch in milliseconds of a created value that parses: its whole
\* seconds times 1000
MsOf(ts) == SomeTime(ts.sec * 1000)

\* the created value of the last history entry, absent for an empty history
LastCreated(history) == IF history = <<>> THEN NoTS ELSE history[Len(history)]

\* C15: for a config blob that is a JSON document, the create time is the
\* parsed top-level created field (absent when it does not parse); the
\* update time is the time of the last history entry when that entry's
\* created value parses and the create time otherwise; two documents with
\* the same created field and the same last history entry give the same
\* result, whatever their earlier history entries are.
C15_UpdateTimeFromLastHistoryEntry ==
    (Called("extractTimestampsFromConfig") /\ arg.configBlob.kind = "json") =>
        LET b == arg.configBlob
            create == IF Parses(b.created) THEN MsOf(b.created) ELSE NoTime
            update == IF Parses(LastCreated(b.history)) THEN MsOf(LastCreated(b.history))
                      ELSE create
        IN  /\ TimesRet = <<create, update>>
            /\ \A other \in ConfigBlobs :
                  (/\ other.kind = "json"
                   /\ other.created = b.created
                   /\ LastCreated(other.history) = LastCreated(b.history)) =>
                      extractTimestampsFromConfig(other) = TimesRet

C15_Witness ==
    /\ Called("extractTimestampsFromConfig")
    /\ arg.configBlob = JsonBlob(TS(0, 0), <<BadTS, TS(20, 123456789)>>)
    /\ TimesRet = <<SomeTime(0), SomeTime(20000)>>

\* the created field is absent or parses in neither format
NoCreateTime(b) == b.kind \in {"empty", "notjson"} \/ ~Parses(b.created)

\* C16: when the config blob is empty or not JSON, or its created field is
\* absent or unparseable, the create time is absent (nil, not a zero epoch);
\* when the last history entry is absent or unparseable as well, the update
\* time is absent too.
C16_AbsentNotZero ==
    Called("extractTimestampsFromConfig") =>
        LET b == arg.configBlob IN
        /\ NoCreateTime(b) => (TimesRet[1] = NoTime /\ TimesRet[1] # SomeTime(0))
        /\ (NoCreateTime(b) /\ ~Parses(LastCreated(b.history))) =>
              (TimesRet[2] = NoTime /\ TimesRet[2] # SomeTime(0))

C16_Witness ==
    /\ Called("extractTimestampsFromConfig")
    /\ arg.configBlob = JsonBlob(BadTS, <<TS(0, 0), BadTS>>)
    /\ TimesRet = <<NoTime, NoTime>>

\* the metadata records on disk
MetadataFiles == {p \in DOMAIN fs : fs[p].kind = "yaml"}

\* C17: in every metadata record the scan persists, on the success path and
\* on the skeleton path, each artifact is the collaborator's artifact with
\* its own create and update timestamps kept where they were set, and the
\* config-derived timestamp only in a field that was absent.
C17_ArtifactTimestampsKept ==
    Called("scanLayersForModelCard") =>
        \A p \in MetadataFiles :
            LET given == ExtractOCIArtifactsFromRegistry(arg.manifestRef)
                arts == fs[p].doc.Artifacts
                times == extractTimestampsFromConfig(arg.configBlob)
            IN  /\ Len(arts) = Len(given)
                /\ \A i \in DOMAIN given :
                      /\ arts[i].uri = given[i].uri
                      /\ arts[i].CreateTimeSinceEpoch =
                            IF given[i].CreateTimeSinceEpoch # NoTime
                            THEN given[i].CreateTimeSinceEpoch ELSE times[1]
                      /\ arts[i].LastUpdateTimeSinceEpoch =
                            IF given[i].LastUpdateTimeSinceEpoch # NoTime
                            THEN given[i].LastUpdateTimeSinceEpoch ELSE times[2]

C17_Witness ==
    /\ Called("scanLayersForModelCard")
    /\ arg.manifestRef = "quay.io/c:1"
    /\ arg.configBlob = JsonBlob(TS(0, 0), <<TS(20, 123456789)>>)
    /\ ScanRet.found
    /\ \E p \in MetadataFiles :
          /\ fs[p].doc.Artifacts[1].CreateTimeSinceEpoch = SomeTime(0)
          /\ fs[p].doc.Artifacts[1].LastUpdateTimeSinceEpoch = SomeTime(9000)

\* ------------------------------------------------------------------------
\* The label merge
\* ------------------------------------------------------------------------
\* the worker has produced its result
ResultProduced(w) == worker[w].pc \in {"send", "close", "release", "wgdone", "done"}

\* the non-empty labels of an entry
NonEmptyLabels(entry) == {entry.Labels[i] : i \in DOMAIN entry.Labels} \ {""}

\* the metadata records worker w persisted
PersistedRecords(w) == {p \in worker[w].wrote : fs[p].kind = "yaml"}

\* C18: when nothing failed, once a worker whose fetch succeeded has produced
\* its result, every metadata record it persisted holds every non-empty label
\* of the model's entry in its tag list, both when the card was found and
\* when the skeleton was produced.
C18_LabelsInPersistedRecord ==
    \A w \in Workers :
        (FetchSucceeded(w) /\ ResultProduced(w) /\ faultsLeft = MaxFaults) =>
            \A p \in PersistedRecords(w) :
                \A label \in NonEmptyLabels(worker[w].entry) :
                    contains(YamlUnmarshal(fs[p]).Tags, label)

\* the calls of addModelLabelTags made so far
TagCalls == {i \in DOMAIN ret : ret[i].fn = "addModelLabelTags"}

\* the record already holds every non-empty label of the entry
HoldsLabels(tags) == \A label \in NonEmptyLabels(arg.entry) : contains(tags, label)

\* no value occurs more often in the second list than in the first, unless
\* it did not occur in the first and occurs once in the second
NoDuplicateAdded(before, after) ==
    \A t \in Range(after) :
        Count(after, t) = IF contains(before, t) THEN Count(before, t) ELSE 1

\* C19: a call of addModelLabelTags on a record that already holds every
\* non-empty label of the entry leaves the tag list as it was and does not
\* write the file; after a call that merged the labels the record holds them,
\* so a second call with the same labels is such a call; and no call adds a
\* tag that is already in the list or adds a tag twice.
C19_LabelMergeIdempotent ==
    \A i \in TagCalls :
        /\ (ret[i].present /\ HoldsLabels(ret[i].before)) =>
              (ret[i].after = ret[i].before /\ ret[i].wrote = {})
        /\ (i > 1 /\ ret[i - 1].present /\ ret[i - 1].faults = {}) =>
              (HoldsLabels(ret[i].before) /\ ret[i].after = ret[i].before /\ ret[i].wrote = {})
        /\ NoDuplicateAdded(ret[i].before, ret[i].after)

C19_Witness ==
    /\ Len(ret) = 2
    /\ arg.entry.Labels = <<"featured", "featured">>
    /\ ret[1].before = <<"validated">>
    /\ ret[1].after = <<"validated", "featured">>
    /\ ret[1].wrote # {}
    /\ ret[2].faults = {}
    /\ ret[2].after = <<"validated", "featured">>
    /\ ret[2].wrote = {}

\* the positions of the labels that are to be appended: non-empty, not in
\* the tag list, and the first occurrence of their value in the label list
NewPositions(tags, labels) ==
    {j \in DOMAIN labels :
        /\ labels[j] # ""
        /\ ~contains(tags, labels[j])
        /\ \A k \in 1..(j - 1) : labels[k] # labels[j]}

\* the labels at those positions, in the order of the label list
NewLabels(tags, labels) ==
    LET pos == NewPositions(tags, labels) IN
    [n \in 1..Cardinality(pos) |->
        labels[CHOOSE j \in pos : Cardinality({k \in pos : k < j}) = n - 1]]

\* C20: after a call of addModelLabelTags that found the record and met no
\* failure, the tag list on disk is the previous tag list followed by the
\* non-empty labels of the entry that were not in it, in order of first
\* appearance in the label list, each once.
C20_TagsAppendedInOrder ==
    \A i \in TagCalls :
        (ret[i].present /\ ret[i].faults = {}) =>
            /\ ret[i].after = ret[i].before \o NewLabels(ret[i].before, arg.entry.Labels)
            /\ (i = Len(ret)) => TagsOnDisk(arg.manifestRef) = ret[i].after

C20_Witness ==
    /\ Len(ret) = 1
    /\ arg.entry.Labels = <<"featured", "validated">>
    /\ ret[1].faults = {}
    /\ ret[1].before = <<"base", "validated">>
    /\ TagsOnDisk(arg.manifestRef) = <<"base", "validated", "featured">>

\* ------------------------------------------------------------------------
\* Output paths of concurrent workers
\* ------------------------------------------------------------------------
\* the goroutine of w has been started
Launched(w) == worker[w].pc # "idle"

\* C21: no file path is written by two different workers: whatever the
\* reference list, the files a worker writes (documentation file, metadata
\* record, label merge) are written by no other worker of the run.
C21_NoPathWrittenByTwoWorkers ==
    \A w1, w2 \in Workers :
        (w1 # w2 /\ Launched(w1) /\ Launched(w2))
            => worker[w1].wrote \cap worker[w2].wrote = {}

\* ------------------------------------------------------------------------
\* manifests.yaml
\* ------------------------------------------------------------------------
\* the document of the last write to manifests.yaml
Manifests == manifestsFile[Len(manifestsFile)]

\* C22: generateManifestsYAML emits exactly one manifest entry per worker
\* result, in the order the results were collected, with the reference, the
\* found flag and the metadata copied unchanged: nothing is dropped,
\* duplicated or reordered.
C22_OneManifestEntryPerResult ==
    mainPc = "generated"
        => /\ Len(Manifests.Models) = Len(modelResults)
           /\ \A i \in DOMAIN modelResults :
                 /\ Manifests.Models[i].Ref = modelResults[i].Ref
                 /\ Manifests.Models[i].ModelCard.Present = modelResults[i].ModelCardFound
                 /\ Manifests.Models[i].ModelCard.Metadata = modelResults[i].Metadata

\* a manifest of two entries in collected order, which is not the input
\* order, one model with a card and one without
C22_Witness ==
    /\ mainPc = "generated"
    /\ Len(modelResults) = 2
    /\ modelResults[1].Ref # manifestRefs[1]
    /\ ~modelResults[1].ModelCardFound
    /\ modelResults[2].ModelCardFound
    /\ Manifests.Models[2].ModelCard.Metadata # EmptyModelMetadata

\* every goroutine of the run has finished
AllWorkersDone == \A w \in Workers : worker[w].pc = "done"

\* C23: the manifest file is written at most once in a run, and only after
\* every worker has completed and the coordinator has returned.
C23_ManifestOnceAfterJoin ==
    [][manifestsFile' # manifestsFile
          => /\ manifestsFile = <<>>
             /\ Len(manifestsFile') = 1
             /\ pc = "done"
             /\ Len(modelResults) = Len(manifestRefs)
             /\ AllWorkersDone]_vars

\* the manifest has been written in a run of two workers
C23_Witness ==
    /\ Len(manifestsFile) = 1
    /\ Cardinality(Workers) = 2
    /\ AllWorkersDone

\* ------------------------------------------------------------------------
\* Order of the layer scan
\* ------------------------------------------------------------------------
\* the annotated layers of the scanned image, by position
DocLayers == {i \in DOMAIN arg.layers : arg.layers[i].Annotations = CardAnn}

\* the paths an extraction of layer i can write
PathsOfLayer(i) ==
    UNION {LET docPath == ModelDirOf(arg.manifestRef) \o Clean(arg.layers[i].entries[k].Name)
           IN  {docPath, Dir(docPath) \o <<"metadata.yaml">>} : k \in MdIndexes(arg.layers[i])}

\* C24: the layers are examined in order and the first annotated layer
\* whose extraction succeeds ends the scan: the blobs fetched are those of
\* the annotated layers up to that layer, in increasing order, every file
\* written comes from that layer, and no later layer is fetched or written;
\* when no extraction succeeds every annotated layer has been tried in order.
C24_FirstSuccessfulLayerWins ==
    Called("scanLayersForModelCard") =>
        LET blobs == ScanRet.blobs
            last == IF blobs = <<>> THEN 0 ELSE blobs[Len(blobs)]
        IN  /\ \A p, q \in DOMAIN blobs : p < q => blobs[p] < blobs[q]
            /\ Range(blobs) = {i \in DocLayers : i <= last}
            /\ ScanRet.found => ScanRet.wrote # {} /\ ScanRet.wrote \subseteq PathsOfLayer(last)
            /\ ~ScanRet.found => /\ \A i \in DocLayers : i <= last
                                 /\ ScanRet.wrote \subseteq {SkeletonPath(arg.manifestRef)}

\* the first of two extractable layers is extracted and the second is
\* neither fetched nor written
C24_Witness ==
    /\ Called("scanLayersForModelCard")
    /\ Len(arg.layers) = 2
    /\ arg.layers[1].entries = <<Entry(<<"README.md">>, ContentOf(<<"README.md">>))>>
    /\ ScanRet.found
    /\ ScanRet.blobs = <<1>>
    /\ ModelDirOf(arg.manifestRef) \o <<"models", "card.md">> \notin DOMAIN fs

\* ------------------------------------------------------------------------
\* A layer whose blob cannot be fetched
\* ------------------------------------------------------------------------
\* session.getBlob failed for the first annotated layer
FirstBlobFailed == Called("scanLayersForModelCard") /\ <<"getBlob", 1, 0>> \in ScanRet.faults

\* C25 as stated: when the blob of the first annotated layer cannot be
\* fetched the worker goes on as if the image had no documentation layer and
\* reports ModelCardFound = false.
C25_BlobFailureMeansNotFound ==
    FirstBlobFailed => ~ScanRet.found /\ ScanRet.metadata = EmptyModelMetadata

\* C25: when the blob of the first annotated layer cannot be fetched, that
\* layer is skipped and nothing of it is written; the scan goes on with the
\* later layers, so a later annotated layer can still provide the card; when
\* none does (in particular when the layer is the only annotated one) the
\* scan reports found = false with empty metadata and the skeleton record is
\* persisted unless one of its own disk operations fails.
C25_BlobFailureSkipsLayer ==
    FirstBlobFailed =>
        /\ ScanRet.blobs # <<>> /\ ScanRet.blobs[1] = 1
        /\ ScanRet.wrote \cap PathsOfLayer(1) = {}
        /\ (Len(arg.layers) = 1) => ~ScanRet.found
        /\ (Len(arg.layers) = 2 /\ ScanRet.faults = {<<"getBlob", 1, 0>>})
              => /\ ScanRet.found
                 /\ ScanRet.blobs = <<1, 2>>
                 /\ ScanRet.wrote \subseteq PathsOfLayer(2)
        /\ ~ScanRet.found
              => /\ ScanRet.metadata = EmptyModelMetadata
                 /\ (ScanRet.faults \cap SkeletonFaults = {}) => IsSkeletonFile(arg.manifestRef)

\* the only annotated layer holds one card, its blob cannot be fetched, and
\* the skeleton is persisted
C25_Witness ==
    /\ FirstBlobFailed
    /\ Len(arg.layers) = 1
    /\ arg.layers[1].entries = <<Entry(<<"README.md">>, ContentOf(<<"README.md">>))>>
    /\ ~ScanRet.found
    /\ IsSkeletonFile(arg.manifestRef)

\* ------------------------------------------------------------------------
\* A failing worker and the references after it
\* ------------------------------------------------------------------------
\* worker w has failed: its fetch failed, or its scan ended without a card
\* (blob fetch, decompression, ambiguity, path check, write), or an
\* operation of the disk or the blob store has failed in the run
WorkerFailed(w) ==
    /\ w \in Workers
    /\ \/ FetchFailed(w)
       \/ /\ worker[w].pc \in {"tags", "send", "close", "release", "wgdone", "done"}
          /\ (~worker[w].result.ModelCardFound \/ faultsLeft < MaxFaults)

\* the references after w have been launched, have finished and have each
\* produced their result, and every permit has been given back
LaterReferencesServed(w) ==
    /\ pc = "done"
    /\ semaphore = 0
    /\ \A v \in Workers : v >= w => worker[v].pc = "done"
    /\ \A v \in Workers :
          v > w => Count(ResultRefs, manifestRefs[v]) = Count(manifestRefs, manifestRefs[v])

\* C26: a worker that fails at any stage still releases its permit and
\* signals completion: under fair scheduling every later reference of the
\* list is eventually launched and produces its own result.
C26_FailingWorkerNeverBlocks ==
    \A w \in 1..MaxRefs : WorkerFailed(w) ~> LaterReferencesServed(w)

\* the first worker failed with the only permit and the second reference has
\* produced its result
C26_Witness ==
    /\ maxConcurrent = 1
    /\ Len(manifestRefs) >= 2
    /\ FetchFailed(1)
    /\ LaterReferencesServed(1)
    /\ modelResults[2].Ref = manifestRefs[2]

\* ------------------------------------------------------------------------
\* The merge of dynamic and static models
\* ------------------------------------------------------------------------
DedupRet == ReturnOf("deduplicateModels")

\* the trimmed, lower-cased form of the names in use
NameKey(name) ==
    CASE name = " " -> ""
      [] name = " A " -> "a"
      [] name = "a" -> "a"
      [] name = "b" -> "b"

\* some model of the list has a name with the key of `name`
NameTaken(models, name) ==
    \E j \in DOMAIN models : models[j].Name # Nil /\ NameKey(models[j].Name) = NameKey(name)

\* the static model at position i is to be kept: it has a non-blank name
\* that no dynamic model and no earlier static model has
KeptStatic(dynamicModels, staticModels, i) ==
    /\ staticModels[i].Name # Nil
    /\ NameKey(staticModels[i].Name) # ""
    /\ ~NameTaken(dynamicModels, staticModels[i].Name)
    /\ ~NameTaken(SubSeq(staticModels, 1, i - 1), staticModels[i].Name)

RECURSIVE KeptStaticsFrom(_, _, _)
KeptStaticsFrom(dynamicModels, staticModels, i) ==
    IF i > Len(staticModels) THEN <<>>
    ELSE (IF KeptStatic(dynamicModels, staticModels, i) THEN <<staticModels[i]>> ELSE <<>>)
             \o KeptStaticsFrom(dynamicModels, staticModels, i + 1)

\* C27: deduplicateModels returns every dynamic model in input order (the
\* nameless ones included), followed in input order by each static model
\* with a non-blank name whose trimmed lower-cased name is neither that of a
\* dynamic model nor that of an earlier kept static model.
C27_DynamicThenUnseenStatic ==
    Called("deduplicateModels") =>
        DedupRet.result = arg.dynamicModels
                              \o KeptStaticsFrom(arg.dynamicModels, arg.staticModels, 1)

\* a nameless dynamic model and one named " A " are kept, the static model
\* "a" loses against " A " and the static model "b" is appended
C27_Witness ==
    /\ Called("deduplicateModels")
    /\ Len(arg.dynamicModels) = 2 /\ Len(arg.staticModels) = 2
    /\ arg.dynamicModels[1].Name = Nil /\ arg.dynamicModels[2].Name = " A "
    /\ arg.staticModels[1].Name = "a" /\ arg.staticModels[2].Name = "b"
    /\ DedupRet.result = arg.dynamicModels \o <<arg.staticModels[2]>>

\* C28: the result of deduplicateModels holds no two models with the same
\* name, for all inputs.
C28_NoTwoModelsWithSameName ==
    Called("deduplicateModels") =>
        \A i, j \in DOMAIN DedupRet.result :
            (i # j /\ DedupRet.result[i].Name # Nil)
                => DedupRet.result[i].Name # DedupRet.result[j].Name

\* ------------------------------------------------------------------------
\* The catalog file
\* ------------------------------------------------------------------------
CatalogRet == ReturnOf("CreateModelsCatalogWithStatic")

\* the models of the catalog that was written
CatalogModels == CatalogRet.written[1].Models

\* C29: the models of the written catalog are in non-decreasing order of
\* name, a missing name counting as the empty string, dynamic and static
\* models together, whatever the walk order and the order of the static list.
C29_CatalogSortedByName ==
    (Called("CreateModelsCatalogWithStatic") /\ CatalogRet.written # <<>>) =>
        \A i, j \in DOMAIN CatalogModels :
            i < j => NameRank(IF CatalogModels[i].Name = Nil THEN "" ELSE CatalogModels[i].Name)
                       <= NameRank(IF CatalogModels[j].Name = Nil THEN "" ELSE CatalogModels[j].Name)

\* the record b and a nameless record on disk, and the static model a: the
\* catalog lists the nameless record, then a, then b
C29_Witness ==
    /\ Called("CreateModelsCatalogWithStatic")
    /\ CatalogRet.written # <<>>
    /\ Len(arg.entries) = 2
    /\ arg.entries[1].status = "ok" /\ arg.entries[1].doc.Name = "b"
    /\ arg.entries[2].status = "ok" /\ arg.entries[2].doc.Name = Nil
    /\ Len(arg.staticModels) = 1 /\ arg.staticModels[1].Name = "a"
    /\ Len(CatalogModels) = 3
    /\ CatalogModels[1].Description = "dynamic 2"
    /\ CatalogModels[2].Description = "static 1"
    /\ CatalogModels[3].Description = "dynamic 1"

\* the records of the files that can be read and parsed, converted
RECURSIVE ParsedModels(_)
ParsedModels(entries) ==
    IF entries = <<>> THEN <<>>
    ELSE (IF Head(entries).base = "metadata.yaml" /\ Head(entries).status = "ok"
          THEN <<CatalogMetadata(Head(entries).doc.Name, Head(entries).doc.Description)>>
          ELSE <<>>) \o ParsedModels(Tail(entries))

\* what the catalog is to hold, in any order
ExpectedModels ==
    ParsedModels(arg.entries) \o KeptStaticsFrom(ParsedModels(arg.entries), arg.staticModels, 1)

\* the catalog was written and holds each expected model as often as expected
CatalogComplete ==
    /\ CatalogRet.err = Nil
    /\ CatalogRet.written # <<>>
    /\ CatalogRet.written[1].Source = "Red Hat"
    /\ Len(CatalogModels) = Len(ExpectedModels)
    /\ \A m \in Range(ExpectedModels) : Count(CatalogModels, m) = Count(ExpectedModels, m)

\* some metadata.yaml of the tree cannot be read or parsed
SomeBadFile ==
    \E i \in DOMAIN arg.entries :
        arg.entries[i].base = "metadata.yaml" /\ arg.entries[i].status # "ok"

\* the walk hands an error to the callback
WalkFails == \E i \in DOMAIN arg.entries : arg.entries[i].status = "walkError"

LoadRet == ReturnOf("LoadStaticCatalogs")
ValidateRet == ReturnOf("validateStaticCatalog")

\* the model has a name, at least one artifact and a URI on every artifact
WellFormedModel(model) ==
    /\ model.Name # Nil /\ model.Name # ""
    /\ Len(model.Artifacts) >= 1
    /\ \A j \in DOMAIN model.Artifacts : model.Artifacts[j].URI # ""

WellFormedCatalog(catalog) ==
    catalog.Source # "" /\ \A i \in DOMAIN catalog.Models : WellFormedModel(catalog.Models[i])

\* the file exists, parses and holds a well-formed catalog
Contributes(file) == file.status = "ok" /\ WellFormedCatalog(file.catalog)

RECURSIVE ExpectedStaticModels(_)
ExpectedStaticModels(files) ==
    IF files = <<>> THEN <<>>
    ELSE (IF Contributes(Head(files)) THEN Head(files).catalog.Models ELSE <<>>)
             \o ExpectedStaticModels(Tail(files))

\* C31: LoadStaticCatalogs never returns an error; each listed file gives all
\* of its models when it exists, parses and passes the validation, and none
\* of them otherwise, and the result is the concatenation of the models of
\* the contributing files in the order of the file list.
C31_AllOrNothingPerFile ==
    Called("LoadStaticCatalogs") =>
        /\ LoadRet.err = NoError
        /\ LoadRet.models = ExpectedStaticModels(arg.files)

\* a catalog whose second model is invalid gives nothing, and the valid
\* catalog listed after it gives its two models
C31_Witness ==
    /\ Called("LoadStaticCatalogs")
    /\ Len(arg.files) = 2
    /\ arg.files[1].status = "ok" /\ Len(arg.files[1].catalog.Models) = 2
    /\ ~WellFormedCatalog(arg.files[1].catalog)
    /\ Len(LoadRet.models) = 2
    /\ LoadRet.models[1].Name = "b" /\ LoadRet.models[2].Name = "c"

\* the first model of the catalog that is not well formed, 0 if none
FirstBadModel(catalog) ==
    IF \A i \in DOMAIN catalog.Models : WellFormedModel(catalog.Models[i]) THEN 0
    ELSE CHOOSE i \in DOMAIN catalog.Models :
            /\ ~WellFormedModel(catalog.Models[i])
            /\ \A k \in 1..(i - 1) : WellFormedModel(catalog.Models[k])

\* C32: validateStaticCatalog returns nil if and only if the source is not
\* empty and every model has a non-nil, non-empty name, at least one artifact
\* and a non-empty URI on every artifact; otherwise the error is that of the
\* first violation: the source, else the first model that is not well
\* formed with its name, then its artifact list, then its first artifact
\* without a URI.
C32_ValidIffWellFormed ==
    Called("validateStaticCatalog") =>
        LET catalog == arg.catalog
            err == ValidateRet.err
            bad == FirstBadModel(catalog)
        IN  /\ err = NoError <=> WellFormedCatalog(catalog)
            /\ catalog.Source = "" => err = <<"source", 0, 0>>
            /\ (catalog.Source # "" /\ bad # 0) =>
                  LET model == catalog.Models[bad] IN
                  /\ err[2] = bad
                  /\ err[1] = (IF model.Name = Nil \/ model.Name = "" THEN "name"
                               ELSE IF model.Artifacts = <<>> THEN "artifacts" ELSE "uri")
                  /\ err[1] = "uri" =>
                        /\ model.Artifacts[err[3]].URI = ""
                        /\ \A j \in 1..(err[3] - 1) : model.Artifacts[j].URI # ""

\* a valid model followed by a model with an empty name: the error names
\* the second model
C32_Witness ==
    /\ Called("validateStaticCatalog")
    /\ arg.catalog.Source = "Red Hat"
    /\ Len(arg.catalog.Models) = 2
    /\ WellFormedModel(arg.catalog.Models[1])
    /\ arg.catalog.Models[2].Name = ""
    /\ ValidateRet.err = <<"name", 2, 0>>

\* ------------------------------------------------------------------------
\* Which layers are fetched
\* ------------------------------------------------------------------------
\* the layers of the image of worker w whose blob was requested
FetchedLayers(w) == {Registry(worker[w].ref).layers[i] : i \in Range(worker[w].blobs)}

\* C33: the blob of a layer is requested only if the annotation map of the
\* layer holds the key io.opendatahub.modelcar.layer.type with the exact
\* value modelcard: layers without annotations, without the key or with
\* another value are never fetched.
C33_OnlyAnnotatedLayersFetched ==
    \A w \in Workers :
        \A layer \in FetchedLayers(w) :
            /\ ~layer.Annotations.isNil
            /\ <<"io.opendatahub.modelcar.layer.type", "modelcard">> \in layer.Annotations.kv

\* the scan of an image with a layer without annotations, a layer with
\* another value and a layer without the key has returned: no blob was
\* requested
C33_Witness ==
    \E w \in Workers :
        /\ worker[w].ref = "quay.io/b:1"
        /\ ScanReturned(w)
        /\ worker[w].blobs = <<>>
        /\ \E i \in DOMAIN Registry("quay.io/b:1").layers :
              Registry("quay.io/b:1").layers[i].Annotations = OtherAnn

\* ------------------------------------------------------------------------
\* An entry that would leave the output directory
\* ------------------------------------------------------------------------
\* the only .md entry of the first layer has an unsafe name, so the scan of
\* that layer reaches the path check and fails it
FirstLayerUnsafe ==
    /\ Called("scanLayersForModelCard")
    /\ Cardinality(MdIndexes(arg.layers[1])) = 1
    /\ \A k \in MdIndexes(arg.layers[1]) : ~SafeRelative(arg.layers[1].entries[k].Name)

\* the bytes of the .md entries of the first layer
FirstLayerCards == {arg.layers[1].entries[k].Content : k \in MdIndexes(arg.layers[1])}

\* C34: a path-safety violation makes the worker skip the offending entry
\* and nothing more: no file is written for the entry, the scan goes on with
\* the remaining layers (a later layer can still give the card), and the scan
\* ends with a result, which is found = false with empty metadata and the
\* skeleton record when no other layer succeeds.
C34_UnsafeEntrySkippedOnly ==
    FirstLayerUnsafe =>
        /\ \A p \in DOMAIN fs : fs[p].kind = "text" => fs[p].text \notin FirstLayerCards
        /\ ScanRet.wrote \subseteq
              {SkeletonPath(arg.manifestRef)}
                  \cup (IF Len(arg.layers) = 2 THEN PathsOfLayer(2) ELSE {})
        /\ (Len(arg.layers) = 2) => ScanRet.blobs = <<1, 2>>
        /\ (Len(arg.layers) = 2 /\ ScanRet.faults = {}) => ScanRet.found
        /\ ~ScanRet.found =>
              /\ ScanRet.metadata = EmptyModelMetadata
              /\ (ScanRet.faults \cap SkeletonFaults = {}) => IsSkeletonFile(arg.manifestRef)

\* an archive holding a licence file and a card with an absolute name,
\* followed by a layer with a card: the first card is not written and the
\* second is
C34_Witness ==
    /\ FirstLayerUnsafe
    /\ Len(arg.layers) = 2
    /\ arg.layers[1].entries = <<Entry(<<"LICENSE">>, ContentOf(<<"LICENSE">>)),
                                  Entry(<<"/", "etc", "x.md">>, ContentOf(<<"/", "etc", "x.md">>))>>
    /\ ScanRet.found
    /\ ScanRet.blobs = <<1, 2>>
    /\ ModelDirOf(arg.manifestRef) \o <<"models", "card.md">> \in DOMAIN fs

\* ------------------------------------------------------------------------
\* The blob cache
\* ------------------------------------------------------------------------
\* the calls of GetBlob made so far in the run: <<worker, position>>
GetBlobCalls == UNION {{<<w, k>> : k \in DOMAIN worker[w].caches} : w \in Workers}

\* C35: within one run the blob fetches share a cache keyed by digest: of
\* two fetches of the same digest the later one is handed the cache state
\* left by the earlier one, in which the digest is known, and not an empty
\* cache.
C35_SecondFetchSeesFirst ==
    \A c1, c2 \in GetBlobCalls :
        LET call1 == worker[c1[1]].caches[c1[2]]
            call2 == worker[c2[1]].caches[c2[2]]
        IN  (c1 # c2 /\ call1.digest = call2.digest)
                => (call1.digest \in call1.cache \/ call2.digest \in call2.cache)

\* ------------------------------------------------------------------------
\* Result order under a single permit
\* ------------------------------------------------------------------------
\* the references of the results sent so far, in the order they were sent:
\* those already collected, then those still in the channel
SentRefs == ResultRefs \o [i \in DOMAIN results |-> results[i].Ref]

\* C36: when maxConcurrent is 1 (given as 1 or corrected to 1) the results
\* are sent, and so collected, in exactly the input order: each worker sends
\* before it releases the single permit, and the next worker is only started
\* with that permit.
C36_SinglePermitKeepsInputOrder ==
    (pc # "start" /\ maxConcurrent = 1)
        => /\ Len(SentRefs) <= Len(manifestRefs)
           /\ SentRefs = SubSeq(manifestRefs, 1, Len(SentRefs))
           /\ (pc = "done") => ResultRefs = manifestRefs

\* a finished run of two different references with the flag 0, corrected to
\* one permit, whose results are in input order
C36_Witness ==
    /\ pc = "done"
    /\ maxConcurrentFlag = 0
    /\ maxConcurrent = 1
    /\ Len(manifestRefs) = 2
    /\ manifestRefs[1] # manifestRefs[2]
    /\ ResultRefs = manifestRefs

\* with two permits another order is reachable: a finished run whose results
\* are in the reverse of the input order
C36_OtherOrderWithTwoPermits ==
    /\ pc = "done"
    /\ maxConcurrent = 2
    /\ Len(manifestRefs) = 2
    /\ manifestRefs[1] # manifestRefs[2]
    /\ ResultRefs = <<manifestRefs[2], manifestRefs[1]>>

\* ------------------------------------------------------------------------
\* The order of a worker's exit
\* ------------------------------------------------------------------------
\* the worker's fetch returned a session
HoldsSession(w) == worker[w].src # Nil

\* the worker has sent its result
HasSent(w) == worker[w].pc \notin {"idle", "fetch", "scan", "tags", "send"}

\* the sessions that workers hold open after their fetch returned them
OpenSessions == {w \in Workers : HoldsSession(w) /\ worker[w].session = "open"}

\* a step of worker w after a successful fetch keeps the order: the session
\* is closed only after the result was sent, the permit is given back only
\* after the session was closed, and the completion is signalled only after
\* that, with the permit no longer held
ExitInOrder(w) ==
    (HoldsSession(w) /\ worker'[w] # worker[w])
        => /\ (worker[w].session = "open" /\ worker'[w].session = "closed") => HasSent(w)
           /\ (semaphore' < semaphore) => (HasSent(w) /\ worker[w].session = "closed")
           /\ (wg' < wg) => (HasSent(w) /\ worker[w].session = "closed" /\ semaphore < wg)

\* C37: on every worker exit after a successful fetch the order is: result
\* sent, session closed, permit released, completion signalled; hence the
\* number of sessions held open by workers after their fetch returned never
\* exceeds maxConcurrent.
C37_ExitOrderBoundsOpenSessions ==
    /\ [][\A w \in (DOMAIN worker) \cap (DOMAIN worker') : ExitInOrder(w)]_vars
    /\ [](pc # "start" => (Cardinality(OpenSessions) <= maxConcurrent /\ semaphore <= wg))

\* a worker has left after a successful fetch with its session closed once,
\* and the next worker, started with the single permit, holds the only open
\* session
C37_Witness ==
    /\ maxConcurrent = 1
    /\ Len(worker) = 2
    /\ worker[1].pc = "done" /\ HoldsSession(1) /\ worker[1].closes = 1
    /\ worker[1].session = "closed"
    /\ OpenSessions = {2}

\* ------------------------------------------------------------------------
\* What ModelCardFound = true stands for
\* ------------------------------------------------------------------------
\* the doc files an extraction of layer i can write
DocPathsOfLayer(i) ==
    {ModelDirOf(arg.manifestRef) \o Clean(arg.layers[i].entries[k].Name) : k \in MdIndexes(arg.layers[i])}

\* the layer whose blob was requested last
LastFetched == IF ScanRet.blobs = <<>> THEN 0 ELSE ScanRet.blobs[Len(ScanRet.blobs)]

\* creating the directory or writing the doc file failed for layer i
DocWriteFailed(i) == <<"mkdir", i, 0>> \in ScanRet.faults \/ <<"writeDoc", i, 0>> \in ScanRet.faults

\* marshalling or writing metadata.yaml failed for layer i
MetadataWriteFailed(i) == <<"marshal", i, 0>> \in ScanRet.faults \/ <<"writeMeta", i, 0>> \in ScanRet.faults

\* C38: the scan returns true only if it wrote the doc file under
\* <output>/<sanitized-ref> in this call; a layer for which creating the
\* directory or writing the doc file failed writes no doc file and is not
\* the layer that yields true; a failure to marshal or write metadata.yaml
\* after the doc file was written still yields true; and the scan never both
\* returns true and creates skeleton metadata.
C38_FoundMeansDocFileWritten ==
    Called("scanLayersForModelCard") =>
        /\ ScanRet.found =>
              /\ LastFetched \in DocLayers
              /\ \E p \in DocPathsOfLayer(LastFetched) :
                    /\ p \in ScanRet.wrote /\ p \in DOMAIN fs
                    /\ IsPrefix(ModelDirOf(arg.manifestRef), Clean(p))
              /\ ~DocWriteFailed(LastFetched)
        /\ \A i \in DocLayers : DocWriteFailed(i) => ScanRet.wrote \cap DocPathsOfLayer(i) = {}
        /\ \A i \in DocLayers :
              (MetadataWriteFailed(i) /\ ScanRet.wrote \cap DocPathsOfLayer(i) # {})
                  => /\ ScanRet.found /\ i = LastFetched
                     /\ \A p \in ScanRet.wrote \cap DocPathsOfLayer(i) :
                           Dir(p) \o <<"metadata.yaml">> \notin ScanRet.wrote
        /\ ScanRet.skeletons = IF ScanRet.found THEN 0 ELSE 1

\* the doc file of the only layer was written, writing metadata.yaml failed,
\* and the scan returned true without a skeleton
C38_Witness ==
    /\ Called("scanLayersForModelCard")
    /\ Len(arg.layers) = 1
    /\ <<"writeMeta", 1, 0>> \in ScanRet.faults
    /\ ScanRet.found
    /\ ScanRet.wrote = {ModelDirOf(arg.manifestRef) \o <<"README.md">>}
    /\ ScanRet.skeletons = 0

\* ------------------------------------------------------------------------
\* A URI that occurs in several entries
\* ------------------------------------------------------------------------
\* the position of the last entry with the URI of entry i
LastWithSameURI(i) ==
    CHOOSE j \in DOMAIN modelEntries :
        /\ modelEntries[j].URI = modelEntries[i].URI
        /\ \A k \in DOMAIN modelEntries : modelEntries[k].URI = modelEntries[i].URI => k <= j

\* a label only entries other than the last one with that URI carry
StaleLabels(i) ==
    {l \in UNION {Range(modelEntries[k].Labels) : k \in DOMAIN modelEntries} :
        /\ l \notin Range(modelEntries[LastWithSameURI(i)].Labels)
        /\ \E k \in DOMAIN modelEntries :
              modelEntries[k].URI = modelEntries[i].URI /\ l \in Range(modelEntries[k].Labels)}

\* C39: when the same URI occurs in several entries one worker runs per
\* occurrence, so that N entries give N results, and every one of these
\* workers uses the labels of the last entry with that URI: no label that
\* only an earlier entry carries reaches the model's tags.
C39_RepeatedUriUsesLastLabels ==
    /\ \A w \in Workers : Launched(w) =>
          /\ worker[w].ref = modelEntries[w].URI
          /\ worker[w].entry.Labels = modelEntries[LastWithSameURI(w)].Labels
          /\ Range(TagsOnDisk(worker[w].ref)) \cap StaleLabels(w) = {}
    /\ (pc = "done") =>
          /\ Len(modelResults) = Len(modelEntries)
          /\ Cardinality({w \in Workers : Launched(w)}) = Len(modelEntries)

\* two entries with the same URI and different labels: two workers ran, two
\* results were returned, and the tags on disk carry the label of the second
\* entry and not that of the first
C39_Witness ==
    /\ pc = "done"
    /\ Len(modelEntries) = 2
    /\ modelEntries[1].URI = modelEntries[2].URI
    /\ modelEntries[1].Labels = <<"featured">>
    /\ modelEntries[2].Labels = <<"community">>
    /\ Len(modelResults) = 2
    /\ \A w \in Workers : worker[w].tagged /\ worker[w].entry.Labels = <<"community">>
    /\ TagsOnDisk(modelEntries[1].URI) = <<"community">>

\* ------------------------------------------------------------------------
\* Whole seconds
\* ------------------------------------------------------------------------
\* fractions of a second, in nanoseconds
Fractions == {0, 5, 123456789, 999999999}

\* the timestamp with its fraction of a second replaced
StampWithFraction(t, n) == IF t.kind = "ok" THEN TS(t.sec, n) ELSE t

\* the config blob with the fraction of every timestamp replaced
BlobWithFraction(b, n) ==
    [b EXCEPT !.created = StampWithFraction(@, n),
              !.history = [i \in DOMAIN @ |-> StampWithFraction(@[i], n)]]

\* C40: every timestamp extractTimestampsFromConfig returns is a whole
\* number of seconds in milliseconds, a multiple of 1000: the fraction of a
\* second of the input is dropped, so inputs that differ only in their
\* fractions give the same values.
C40_WholeSecondsInMilliseconds ==
    Called("extractTimestampsFromConfig") =>
        /\ \A k \in 1..2 : TimesRet[k] # NoTime => TimesRet[k][1] % 1000 = 0
        /\ \A n \in Fractions :
              extractTimestampsFromConfig(BlobWithFraction(arg.configBlob, n)) = TimesRet

\* a created time and a last history entry with a fraction of a second give
\* the millisecond values of their whole seconds
C40_Witness ==
    /\ Called("extractTimestampsFromConfig")
    /\ arg.configBlob = JsonBlob(TS(20, 123456789), <<TS(20, 123456789)>>)
    /\ TimesRet = <<SomeTime(20000), SomeTime(20000)>>

====
